---- MODULE Spec2Model ----
(***************************************************************************)
(* A model of the battlefield of multiply-or-release: the turret charge    *)
(* and firing-queue state machine, the collision handlers, zero-charge     *)
(* resolution, elimination and restart, as the systems of                  *)
(* src/src/battlefield.rs run them once per frame.                         *)
(*                                                                         *)
(* One frame is: FixedUpdate (fire_shots, zero or more fixed ticks), then  *)
(* the Update chain                                                        *)
(*   handle_bullet_tile_collision -> handle_bullet_turret_collision ->     *)
(*   handle_trigger_events -> update_charge_level -> handle_elimination,   *)
(* then PostUpdate, where the physics engine steps and reports the         *)
(* collision-start events the next frame reads.  Commands (spawn, despawn) *)
(* are deferred: they are applied at the synchronisation point that        *)
(* follows a system with an ordering edge (after the tile handler, after   *)
(* update_charge_level) and at the end of the schedule.  restart,          *)
(* button_system and trigger_event have no ordering edge: they run at any  *)
(* point of Update.                                                        *)
(***************************************************************************)
EXTENDS Integers, Sequences, FiniteSets, TLC

\* ------------------------------------------------------------- bounds
\* The model's stand-in for u64::MAX (TLC's integers are 32 bits wide).
MaxU64 == 40
\* Tiles per quadrant (the program has TILE_COUNT * TILE_COUNT of them).
TilesPerQuadrant == 1
\* Bullets in flight at once.
MaxBullets == 2
\* Collision-start events between bullets and tiles or turrets, per frame.
MaxContacts == 2
\* Bullet collision events over a whole run.
MaxContactsTotal == 2
\* Worker-ball/trigger-zone contacts per frame, and over a whole run.
MaxZones == 1
MaxZoneTotal == 2
\* Seconds of game time a frame lasts, and the frames a run may take.
FrameSeconds == 5
MaxFrames == 4
\* Restart button presses over a whole run.
MaxRestarts == 1
\* Runs of restart in a row.
MaxRuns == 2
\* CollisionEvents of the panels in one frame.
MaxPanelEvents == 2
\* Effect entities spawned.
MaxEffects == 4
\* The model's stand-in for the 53 bits an f64 keeps of an integer; no value of
\* a match or of a burst drain below needs more.
F64Mantissa == 20

\* ---------------------------------------------------------- constants
BOOSTED_TURRET_CHARGE_VALUE == 16
TURRET_BOOST_COOLDOWN == 5
MULTI_SHOT_CHARGE_OFFSET == 8
SURVIVOR_COUNT_DEFAULT == 4
BATTLEFIELD_HALF_WIDTH == 360
TURRET_POSITION == 330
NEW_BULLET_PHASE_RANGE == 2 * (BATTLEFIELD_HALF_WIDTH - TURRET_POSITION)
BULLET_SIZE_FACTOR == 2
WORKER_BALL_SPAWN_TIMER_SECS == 10
WORKER_BALL_COUNT_MAX == 10
\* The timer is counted in fifths of a second: setup ticks it to 0.2 s before
\* its end.
TIMER_TICKS == 5

Participant == {"A", "B", "C", "D"}
ALL == <<"A", "B", "C", "D">>
ShotType == {"Charged", "Multi"}
TriggerType == {"Multiply", "BurstShot", "ChargedShot"}
\* The factors a Multiply trigger may carry (a u8 in the program).
Factors == {2, 4}

VARIABLES
    turrets,          \* Participant -> the turret entity of that participant
    bullets,          \* the bullets in flight, in spawn order
    tiles,            \* tile -> owner
    survivor_count,   \* SurvivorCount
    survivors,        \* ParticipantMap<bool>
    workers,          \* Participant -> has worker balls in its panel
    contacts,         \* CollisionEvents of bullets the handlers are reading
    zone_read,        \* trigger_event has read this frame's zone contacts
    trigger_events,   \* Events<TriggerEvent> not yet read by handle_trigger_events
    elimination_events, \* Events<EliminationEvent> not yet read
    restart_trig,     \* a RestartEvent handle_trigger_events has not read
    restart_sys,      \* the RestartEvent as the restart system sees it
    restart_pending,  \* restart's commands are queued, not yet applied
    doomed,           \* participants whose entities handle_elimination despawns
    now,              \* Time::elapsed_seconds
    pc,               \* the next system of the frame
    budget,           \* what the run has used of its bounds
    frame,            \* observations of the current frame
    census,           \* the turret entities of each participant and the tile
                      \* entities of each cell that are in the world
    instance_manager, \* EffectInstanceManager; spawned counts the effect
                      \* entities spawned so far
    spawner           \* WorkerBallSpawner: its counter and timer; ran tells that
                      \* spawn_workers has run in this frame, panicked that it
                      \* has hit unimplemented!()

vars == <<turrets, bullets, tiles, survivor_count, survivors, workers, contacts,
          zone_read, trigger_events, elimination_events, restart_trig,
          restart_sys, restart_pending, doomed, now, pc, budget, frame, census,
          instance_manager, spawner>>

\* ------------------------------------------------------------ Charge
RECURSIVE CeilLog2(_)
\* ceil(log2(v)): the least k with 2^k >= v (0 for v <= 1; the program's cast of
\* log2(0) = -inf to u64 gives 0 as well).
CeilLog2(v) == IF v <= 1 THEN 0 ELSE 1 + CeilLog2((v + 1) \div 2)

RECURSIVE BitLen(_)
\* The bits of v.
BitLen(v) == IF v = 0 THEN 0 ELSE 1 + BitLen(v \div 2)

\* value as f64: the nearest number with F64Mantissa significant bits, a tie
\* going to the even one.
as_f64(v) ==
    IF BitLen(v) <= F64Mantissa THEN v
    ELSE LET ulp == 2 ^ (BitLen(v) - F64Mantissa)
             q == v \div ulp
             r == v % ulp
         IN  IF 2 * r > ulp \/ (2 * r = ulp /\ q % 2 = 1)
             THEN (q + 1) * ulp
             ELSE q * ulp

\* A plausible slip: the floor of the logarithm instead of its ceiling.
calculate_level_floor(value) == BitLen(as_f64(value))

\* log2 and ceil are taken as exact on the converted value.
calculate_level(value) == CeilLog2(as_f64(value)) + 1

from_value(value) == [value |-> value, level |-> calculate_level(value)]

\* A plausible slip: the level is left as it is.
update_level_kept(charge) == charge

update_level(charge) == [charge EXCEPT !.level = calculate_level(charge.value)]

\* A plausible slip: the product wraps around.
multiply_wrapping(charge, factor) ==
    [charge EXCEPT !.value = (charge.value * factor) % (MaxU64 + 1)]

multiply(charge, factor) ==
    [charge EXCEPT !.value = IF charge.value * factor > MaxU64
                             THEN MaxU64
                             ELSE charge.value * factor]

reset_boosted(charge) == update_level([charge EXCEPT !.value = BOOSTED_TURRET_CHARGE_VALUE])

reset(charge) == [value |-> 1, level |-> 1]

DefaultCharge == from_value(BOOSTED_TURRET_CHARGE_VALUE)

\* -------------------------------------------------- collision groups
\* A Group is a set of bits, one bit per kind of entity and participant.
BATTLEFIELD_ROOT == {<<"BATTLEFIELD_ROOT", "-">>}

tile(participant) == {<<"TILE", participant>>}
bullet(participant) == {<<"BULLET", participant>>}
new_bullet(participant) == {<<"NEW_BULLET", participant>>}
turret(participant) == {<<"TURRET", participant>>}

ALL_TILES == UNION {tile(p) : p \in {"A", "B", "C", "D"}}
ALL_BULLETS == UNION {bullet(p) : p \in {"A", "B", "C", "D"}}
ALL_NEW_BULLETS == UNION {new_bullet(p) : p \in {"A", "B", "C", "D"}}
ALL_TURRETS == UNION {turret(p) : p \in {"A", "B", "C", "D"}}

all_tiles_except(participant) == ALL_TILES \ tile(participant)
all_bullets_except(participant) == ALL_BULLETS \ bullet(participant)
all_new_bullets_except(participant) == ALL_NEW_BULLETS \ new_bullet(participant)

CollisionGroups(memberships, filters) ==
    [memberships |-> memberships, filters |-> filters]

\* The test of the physics engine: two colliders interact when each one's
\* memberships meet the other's filters.
Interacts(g, h) ==
    /\ g.memberships \cap h.filters # {}
    /\ h.memberships \cap g.filters # {}

\* ParticipantMap<TileColor>.
tile_colors ==
    [p \in {"A", "B", "C", "D"} |->
        CASE p = "A" -> "MAROON" [] p = "B" -> "DARK_GREEN"
          [] p = "C" -> "PURPLE" [] p = "D" -> "DARK_GOLDENROD"]

\* ---------------------------------------------------------- entities
\* The collision groups TurretBundle::new gives the turret of owner.
turret_collision_groups(owner) ==
    CollisionGroups(turret(owner), ALL_BULLETS \cup all_new_bullets_except(owner))

\* Turret::default with Charge::default, just spawned (Added counts as Changed).
NewTurret ==
    [exists |-> TRUE, charge |-> DefaultCharge, changed |-> TRUE,
     firing_queue |-> <<>>, last_hit_timestamp |-> -TURRET_BOOST_COOLDOWN]

\* The slot of a participant whose turret entity is despawned.
NoTurret ==
    [exists |-> FALSE, charge |-> [value |-> 0, level |-> 0], changed |-> FALSE,
     firing_queue |-> <<>>, last_hit_timestamp |-> 0]

\* A plausible slip: every projectile is spawned as a unit pellet.
BulletBundle_unit(owner, position, charge) ==
    [owner |-> owner, position |-> position,
     charge |-> [value |-> 1, level |-> 1], changed |-> TRUE,
     NewBullet |-> TRUE,
     collision_groups |->
        CollisionGroups(new_bullet(owner),
                        BATTLEFIELD_ROOT \cup ALL_BULLETS \cup ALL_NEW_BULLETS
                           \cup ALL_TURRETS \cup all_tiles_except(owner)),
     solver_groups |->
        CollisionGroups(new_bullet(owner),
                        BATTLEFIELD_ROOT \cup ALL_BULLETS
                           \cup all_new_bullets_except(owner)),
     spawn_value |-> 1, flips |-> 0, hit |-> FALSE, stepped |-> FALSE]

\* BulletBundle::new.  position is the translation the bullet is spawned at.
\* spawn_value, flips and hit observe the bullet's history (the
\* value it was spawned with, the tiles it flipped, whether it met a turret);
\* stepped tells that the physics engine has stepped the bullet, so that it can
\* have contacts.
BulletBundle(owner, position, charge) ==
    [owner |-> owner, position |-> position, charge |-> charge, changed |-> TRUE,
     NewBullet |-> TRUE,
     collision_groups |->
        CollisionGroups(new_bullet(owner),
                        BATTLEFIELD_ROOT \cup ALL_BULLETS \cup ALL_NEW_BULLETS
                           \cup ALL_TURRETS \cup all_tiles_except(owner)),
     solver_groups |->
        CollisionGroups(new_bullet(owner),
                        BATTLEFIELD_ROOT \cup ALL_BULLETS
                           \cup all_new_bullets_except(owner)),
     spawn_value |-> charge.value, flips |-> 0, hit |-> FALSE, stepped |-> FALSE]

\* TileBundle::new: the owner, the colour of the sprite, the collision groups.
TileBundle(owner) ==
    [owner |-> owner, color |-> tile_colors[owner],
     collision_groups |->
        CollisionGroups(tile(owner),
                        all_bullets_except(owner) \cup all_new_bullets_except(owner))]

Tile == 1 .. (4 * TilesPerQuadrant)

\* setup_tiles gives each quadrant to one participant.
Quadrant(t) == ALL[((t - 1) % 4) + 1]

setup_tiles == [t \in Tile |-> TileBundle(Quadrant(t))]

setup_turrets == [p \in Participant |-> NewTurret]

\* A plausible slip: the game goes on while anyone is left.
game_is_going_while_any == survivor_count > 0

game_is_going == survivor_count > 1

Min(a, b) == IF a < b THEN a ELSE b

\* ------------------------------------------------------------ events
\* A collision-start event of a bullet with a tile or with a turret.
TileContact(b, t) == [kind |-> "tile", bullet |-> b, tile |-> t, turret |-> "-"]
TurretContact(b, p) == [kind |-> "turret", bullet |-> b, tile |-> 0, turret |-> p]

\* ------------------------------------------------ EffectInstanceManager
\* pool and dispatched are Vecs of entities; an entity is the number of its spawn.
DefaultManager == [pool |-> <<>>, dispatched |-> <<>>, spawned |-> 0]

instance_manager_add(m, entity) == [m EXCEPT !.dispatched = Append(@, entity)]

\* A plausible slip: the entity handed out stays in the pool.
instance_manager_get_kept(m) ==
    IF m.pool # <<>>
    THEN [manager |-> [m EXCEPT !.dispatched = Append(@, m.pool[Len(m.pool)])],
          entity |-> <<m.pool[Len(m.pool)]>>]
    ELSE [manager |-> m, entity |-> <<>>]

\* get: the manager after the call and the Option returned (<<>> is None).
instance_manager_get(m) ==
    IF m.pool # <<>>
    THEN [manager |-> [m EXCEPT !.pool = SubSeq(@, 1, Len(@) - 1),
                                !.dispatched = Append(@, m.pool[Len(m.pool)])],
          entity |-> <<m.pool[Len(m.pool)]>>]
    ELSE [manager |-> m, entity |-> <<>>]

\* reset: Vec::append moves the dispatched entities to the end of the pool.
instance_manager_reset(m) ==
    [m EXCEPT !.pool = @ \o m.dispatched, !.dispatched = <<>>]

\* commands.spawn(..).id(): the world hands out an entity it never handed out.
spawn_effect(m) == [manager |-> [m EXCEPT !.spawned = @ + 1], entity |-> m.spawned + 1]

\* The effect of one captured tile: an instance of the pool, or a new one.
tile_hit_effect(m) ==
    IF instance_manager_get(m).entity # <<>>
    THEN instance_manager_get(m).manager
    ELSE instance_manager_add(spawn_effect(m).manager, spawn_effect(m).entity)

RECURSIVE TileHitEffects(_, _)
TileHitEffects(m, n) == IF n = 0 THEN m ELSE TileHitEffects(tile_hit_effect(m), n - 1)

RECURSIVE Captures(_, _)
\* The tiles captured between the bullets before and after the handler's loop.
Captures(before, after) ==
    IF before = <<>> THEN 0
    ELSE (Head(after).flips - Head(before).flips) + Captures(Tail(before), Tail(after))

\* ------------------------------------------- handle_bullet_tile_collision
\* A plausible slip: the check for a spent bullet is left out.
TileHit_unchecked(s, e) ==
    IF e.kind # "tile" \/ e.bullet > Len(s.bullets) THEN s
    ELSE LET b == s.bullets[e.bullet] IN
         IF b.owner = s.tiles[e.tile].owner THEN s
         ELSE [bullets |-> [s.bullets EXCEPT ![e.bullet] =
                               [b EXCEPT !.charge.value = @ - 1,
                                         !.changed = TRUE,
                                         !.flips = @ + 1]],
               tiles |-> [s.tiles EXCEPT ![e.tile] =
                            [owner |-> b.owner,
                             color |-> tile_colors[b.owner],
                             collision_groups |->
                                CollisionGroups(tile(b.owner),
                                                all_bullets_except(b.owner)
                                                   \cup all_new_bullets_except(b.owner))]]]

\* A plausible slip: the capture costs the bullet nothing.
TileHit_unspent(s, e) ==
    IF e.kind # "tile" \/ e.bullet > Len(s.bullets) THEN s
    ELSE LET b == s.bullets[e.bullet] IN
         IF b.owner = s.tiles[e.tile].owner THEN s
         ELSE IF b.charge.value = 0 THEN s
         ELSE [bullets |-> [s.bullets EXCEPT ![e.bullet] =
                               [b EXCEPT !.changed = TRUE, !.flips = @ + 1]],
               tiles |-> [s.tiles EXCEPT ![e.tile] =
                            [owner |-> b.owner,
                             color |-> tile_colors[b.owner],
                             collision_groups |->
                                CollisionGroups(tile(b.owner),
                                                all_bullets_except(b.owner)
                                                   \cup all_new_bullets_except(b.owner))]]]

\* A plausible slip: the tile gets its new owner and colour, its collision groups
\* are left as they were.
TileHit_groups_kept(s, e) ==
    IF e.kind # "tile" \/ e.bullet > Len(s.bullets) THEN s
    ELSE LET b == s.bullets[e.bullet] IN
         IF b.owner = s.tiles[e.tile].owner THEN s
         ELSE IF b.charge.value = 0 THEN s
         ELSE [bullets |-> [s.bullets EXCEPT ![e.bullet] =
                               [b EXCEPT !.charge.value = @ - 1,
                                         !.changed = TRUE,
                                         !.flips = @ + 1]],
               tiles |-> [s.tiles EXCEPT ![e.tile] =
                            [@ EXCEPT !.owner = b.owner,
                                      !.color = tile_colors[b.owner]]]]

\* One collision-start event, on s = [bullets, tiles].
TileHit(s, e) ==
    IF e.kind # "tile" \/ e.bullet > Len(s.bullets) THEN s
    ELSE LET b == s.bullets[e.bullet] IN
         IF b.owner = s.tiles[e.tile].owner THEN s
         ELSE IF b.charge.value = 0 THEN s
         ELSE [bullets |-> [s.bullets EXCEPT ![e.bullet] =
                               [b EXCEPT !.charge.value = @ - 1,
                                         !.changed = TRUE,
                                         !.flips = @ + 1]],
               tiles |-> [s.tiles EXCEPT ![e.tile] =
                            [owner |-> b.owner,
                             color |-> tile_colors[b.owner],
                             collision_groups |->
                                CollisionGroups(tile(b.owner),
                                                all_bullets_except(b.owner)
                                                   \cup all_new_bullets_except(b.owner))]]]

RECURSIVE TileFold(_, _)
TileFold(s, events) ==
    IF events = <<>> THEN s ELSE TileFold(TileHit(s, Head(events)), Tail(events))

\* ----------------------------------------- handle_bullet_turret_collision
\* A plausible slip: the bullet always spends its whole value.
min_value_of_bullet(bullet_charge, turret_charge) == bullet_charge.value

\* The amount a bullet and a turret take from each other.
min_value(bullet_charge, turret_charge) == Min(bullet_charge.value, turret_charge.value)

\* A plausible slip: the time of the hit is kept only when something was taken.
TurretHit_only_on_loss(s, e) ==
    IF e.kind # "turret" \/ e.bullet > Len(s.bullets) THEN s
    ELSE IF ~s.turrets[e.turret].exists THEN s
    ELSE LET b == s.bullets[e.bullet]
             t == s.turrets[e.turret]
             m == min_value(b.charge, t.charge)
         IN  IF e.turret = b.owner THEN s
             ELSE [bullets |-> [s.bullets EXCEPT ![e.bullet] =
                                   [b EXCEPT !.charge.value = @ - m,
                                             !.changed = TRUE,
                                             !.hit = TRUE]],
                   turrets |-> [s.turrets EXCEPT ![e.turret] =
                                   [t EXCEPT !.charge.value = @ - m,
                                             !.changed = TRUE,
                                             !.last_hit_timestamp =
                                                 IF m > 0 THEN now ELSE @]]]

\* One collision-start event, on s = [bullets, turrets].
TurretHit(s, e) ==
    IF e.kind # "turret" \/ e.bullet > Len(s.bullets) THEN s
    ELSE IF ~s.turrets[e.turret].exists THEN s
    ELSE LET b == s.bullets[e.bullet]
             t == s.turrets[e.turret]
             m == min_value(b.charge, t.charge)
         IN  IF e.turret = b.owner THEN s
             ELSE [bullets |-> [s.bullets EXCEPT ![e.bullet] =
                                   [b EXCEPT !.charge.value = @ - m,
                                             !.changed = TRUE,
                                             !.hit = TRUE]],
                   turrets |-> [s.turrets EXCEPT ![e.turret] =
                                   [t EXCEPT !.charge.value = @ - m,
                                             !.changed = TRUE,
                                             !.last_hit_timestamp = now]]]

RECURSIVE TurretFold(_, _)
TurretFold(s, events) ==
    IF events = <<>> THEN s ELSE TurretFold(TurretHit(s, Head(events)), Tail(events))

\* --------------------------------------------------- handle_trigger_events
\* A plausible slip: the boost is given back at the end of the cooldown already.
ResetAfterShot_inclusive(t) ==
    IF now - t.last_hit_timestamp >= TURRET_BOOST_COOLDOWN
    THEN reset_boosted(t.charge)
    ELSE reset(t.charge)

\* The charge a turret restarts from after it queued a shot.
ResetAfterShot(t) ==
    IF now - t.last_hit_timestamp > TURRET_BOOST_COOLDOWN
    THEN reset_boosted(t.charge)
    ELSE reset(t.charge)

\* A plausible slip: push_back instead of push_front.
QueueShot_back(t, shot_type) ==
    [t EXCEPT !.firing_queue = Append(@, [shot_type |-> shot_type, charge |-> t.charge]),
              !.charge = ResetAfterShot(t),
              !.changed = TRUE]

\* A plausible slip: the charge is reset before it is queued.
QueueShot_after_reset(t, shot_type) ==
    [t EXCEPT !.firing_queue =
                  <<[shot_type |-> shot_type, charge |-> ResetAfterShot(t)]>> \o @,
              !.charge = ResetAfterShot(t),
              !.changed = TRUE]

QueueShot(t, shot_type) ==
    [t EXCEPT !.firing_queue = <<[shot_type |-> shot_type, charge |-> t.charge]>> \o @,
              !.charge = ResetAfterShot(t),
              !.changed = TRUE]

\* A plausible slip: the turret of the event is taken to be in the world.
Trigger_unchecked(ts, e, lookup) ==
    LET t == ts[e.participant] IN
    CASE e.trigger_type = "Multiply" ->
           [ts EXCEPT ![e.participant] =
               [t EXCEPT !.charge = multiply(t.charge, e.factor), !.changed = TRUE]]
      [] e.trigger_type = "BurstShot" ->
           [ts EXCEPT ![e.participant] = QueueShot(t, "Multi")]
      [] e.trigger_type = "ChargedShot" ->
           [ts EXCEPT ![e.participant] = QueueShot(t, "Charged")]

\* One TriggerEvent, on the turrets; lookup is false when turret_entities names
\* an entity that is not in the world.
Trigger(ts, e, lookup) ==
    IF ~lookup \/ ~ts[e.participant].exists THEN ts
    ELSE LET t == ts[e.participant] IN
         CASE e.trigger_type = "Multiply" ->
                [ts EXCEPT ![e.participant] =
                    [t EXCEPT !.charge = multiply(t.charge, e.factor), !.changed = TRUE]]
           [] e.trigger_type = "BurstShot" ->
                [ts EXCEPT ![e.participant] = QueueShot(t, "Multi")]
           [] e.trigger_type = "ChargedShot" ->
                [ts EXCEPT ![e.participant] = QueueShot(t, "Charged")]

RECURSIVE TriggerFold(_, _, _)
TriggerFold(ts, events, lookup) ==
    IF events = <<>> THEN ts
    ELSE TriggerFold(Trigger(ts, Head(events), lookup), Tail(events), lookup)

\* ------------------------------------------------------------- fire_shots
\* A plausible slip: the pellet value is not raised to 1.
shot_value_unclamped(charge) ==
    IF charge.level <= MULTI_SHOT_CHARGE_OFFSET
    THEN 0
    ELSE charge.level - MULTI_SHOT_CHARGE_OFFSET

\* The pellet of a burst: its value comes from the level of the queued charge.
shot_value(charge) ==
    IF charge.level <= MULTI_SHOT_CHARGE_OFFSET
    THEN 1
    ELSE charge.level - MULTI_SHOT_CHARGE_OFFSET

Abs(x) == IF x < 0 THEN -x ELSE x

\* f32::signum on the coordinates of a turret, which are never NaN.
signum(x) == IF x < 0 THEN -1 ELSE 1

Vec2(x, y) == [x |-> x, y |-> y]

\* Charge::get_scale: the radius of a ball of this charge.
get_scale(charge) == charge.level * BULLET_SIZE_FACTOR

\* The translation setup_turrets gives the turret of each participant; a turret
\* is a fixed body and never moves.
turret_translation ==
    [p \in Participant |->
        CASE p = "A" -> Vec2(TURRET_POSITION, TURRET_POSITION)
          [] p = "B" -> Vec2(-TURRET_POSITION, TURRET_POSITION)
          [] p = "C" -> Vec2(TURRET_POSITION, -TURRET_POSITION)
          [] p = "D" -> Vec2(-TURRET_POSITION, -TURRET_POSITION)]

\* A plausible slip: the spawn point is held off the wall by less than a radius.
get_offset_centre(translation, radius) ==
    LET absx == Abs(translation.x)
        abs_offset == absx - Min(absx, BATTLEFIELD_HALF_WIDTH)
    IN  Vec2(signum(translation.x) * abs_offset, signum(translation.y) * abs_offset)

\* The closure get_offset of fire_shots: how far, along both axes, a ball of
\* this radius is pulled from the turret towards the centre.
get_offset(translation, radius) ==
    LET absx == Abs(translation.x)
        abs_offset == absx - Min(absx, BATTLEFIELD_HALF_WIDTH - radius)
    IN  Vec2(signum(translation.x) * abs_offset, signum(translation.y) * abs_offset)

\* transform.translation.xy() - offset, for the charge the projectile is spawned
\* with: the radius is the scale of that charge, for both shot types.
spawn_position(owner, charge) ==
    LET translation == turret_translation[owner]
        offset == get_offset(translation, get_scale(charge))
    IN  Vec2(translation.x - offset.x, translation.y - offset.y)

\* A plausible slip: the rest of a burst is put back with the level it had.
Fire_stale_level(t) ==
    IF ~t.exists \/ t.firing_queue = <<>> THEN [queue |-> t.firing_queue, shots |-> <<>>]
    ELSE LET n == Len(t.firing_queue)
             entry == t.firing_queue[n]
             rest == SubSeq(t.firing_queue, 1, n - 1)
         IN  IF entry.shot_type = "Charged"
             THEN [queue |-> rest, shots |-> <<entry.charge>>]
             ELSE LET shot == from_value(shot_value(entry.charge)) IN
                  IF entry.charge.value <= shot.value
                  THEN [queue |-> rest, shots |-> <<shot>>]
                  ELSE [queue |-> Append(rest,
                                   [shot_type |-> "Multi",
                                    charge |-> [entry.charge EXCEPT
                                                  !.value = @ - shot.value]]),
                        shots |-> <<shot>>]

\* A plausible slip: the entry is read with back() and stays on the queue.
Fire_peek(t) ==
    IF ~t.exists \/ t.firing_queue = <<>> THEN [queue |-> t.firing_queue, shots |-> <<>>]
    ELSE LET n == Len(t.firing_queue)
             entry == t.firing_queue[n]
         IN  IF entry.shot_type = "Charged"
             THEN [queue |-> t.firing_queue, shots |-> <<entry.charge>>]
             ELSE [queue |-> t.firing_queue,
                   shots |-> <<from_value(shot_value(entry.charge))>>]

\* A plausible slip: the rest of a burst is put back without the pellet taken off.
Fire_undrained(t) ==
    IF ~t.exists \/ t.firing_queue = <<>> THEN [queue |-> t.firing_queue, shots |-> <<>>]
    ELSE LET n == Len(t.firing_queue)
             entry == t.firing_queue[n]
             rest == SubSeq(t.firing_queue, 1, n - 1)
         IN  IF entry.shot_type = "Charged"
             THEN [queue |-> rest, shots |-> <<entry.charge>>]
             ELSE LET shot == from_value(shot_value(entry.charge)) IN
                  IF entry.charge.value <= shot.value
                  THEN [queue |-> rest, shots |-> <<shot>>]
                  ELSE [queue |-> Append(rest,
                                   [shot_type |-> "Multi",
                                    charge |-> from_value(entry.charge.value)]),
                        shots |-> <<shot>>]

\* What one turret fires in a fixed tick: [queue, shots], the queue after the pop
\* and the charges of the projectiles spawned (none, or one).
Fire(t) ==
    IF ~t.exists \/ t.firing_queue = <<>> THEN [queue |-> t.firing_queue, shots |-> <<>>]
    ELSE LET n == Len(t.firing_queue)
             entry == t.firing_queue[n]
             rest == SubSeq(t.firing_queue, 1, n - 1)
         IN  IF entry.shot_type = "Charged"
             THEN [queue |-> rest, shots |-> <<entry.charge>>]
             ELSE LET shot == from_value(shot_value(entry.charge)) IN
                  IF entry.charge.value <= shot.value
                  THEN [queue |-> rest, shots |-> <<shot>>]
                  ELSE [queue |-> Append(rest,
                                   [shot_type |-> "Multi",
                                    charge |-> from_value(entry.charge.value - shot.value)]),
                        shots |-> <<shot>>]

RECURSIVE SpawnShots(_, _)
\* The bullets the turrets of the participants ps (a sequence) spawn, in order.
SpawnShots(ts, ps) ==
    IF ps = <<>> THEN <<>>
    ELSE LET f == Fire(ts[Head(ps)]) IN
         (IF f.shots = <<>> THEN <<>> ELSE <<BulletBundle(Head(ps), spawn_position(Head(ps), f.shots[1]),
                                                     f.shots[1])>>)
         \o SpawnShots(ts, Tail(ps))

\* ---------------------------------------------------- update_charge_level
LevelTurret(t) ==
    IF t.exists /\ t.changed /\ t.charge.value > 0
    THEN [t EXCEPT !.charge = update_level(@), !.changed = FALSE]
    ELSE [t EXCEPT !.changed = FALSE]

\* A changed turret at value 0 is reported, never despawned here.
Eliminated(ts, p) == ts[p].exists /\ ts[p].changed /\ ts[p].charge.value = 0

\* A plausible slip: a spent bullet is kept.
Despawned_below_zero(b) == b.changed /\ b.charge.value < 0

\* A changed bullet at value 0 is despawned.
Despawned(b) == b.changed /\ b.charge.value = 0

LevelBullet(b) ==
    IF b.changed /\ b.charge.value > 0
    THEN [b EXCEPT !.charge = update_level(@), !.changed = FALSE]
    ELSE [b EXCEPT !.changed = FALSE]

RECURSIVE LevelBullets(_)
LevelBullets(bs) ==
    IF bs = <<>> THEN <<>>
    ELSE (IF Despawned(Head(bs)) THEN <<>> ELSE <<LevelBullet(Head(bs))>>)
         \o LevelBullets(Tail(bs))

RECURSIVE EliminationEvents(_, _)
EliminationEvents(ts, ps) ==
    IF ps = <<>> THEN <<>>
    ELSE (IF Eliminated(ts, Head(ps)) THEN <<Head(ps)>> ELSE <<>>)
         \o EliminationEvents(ts, Tail(ps))

\* ------------------------------------------------------ handle_elimination
RECURSIVE Eliminate_count_only(_, _)
\* A plausible slip: the alive flag is left as it was.
Eliminate_count_only(s, events) ==
    IF events = <<>> THEN s
    ELSE Eliminate_count_only([count |-> (s.count - 1) % 256, survivors |-> s.survivors],
                              Tail(events))

\* A plausible slip: one event is handled per tick, the others are dropped.
Eliminate_first_only(s, events) ==
    IF events = <<>> THEN s
    ELSE [count |-> (s.count - 1) % 256,
          survivors |-> [s.survivors EXCEPT ![Head(events)] = FALSE]]

RECURSIVE Eliminate(_, _)
\* The events in order, on s = [count, survivors]; SurvivorCount is a u8.
Eliminate(s, events) ==
    IF events = <<>> THEN s
    ELSE Eliminate([count |-> (s.count - 1) % 256,
                    survivors |-> [s.survivors EXCEPT ![Head(events)] = FALSE]],
                   Tail(events))

Range(seq) == {seq[i] : i \in 1 .. Len(seq)}

\* ------------------------------------------------------- deferred commands
\* A synchronisation point applies the commands restart queued: every bullet and
\* turret is despawned, the tiles and the four turrets are set up again.
SyncTurrets(ts) == IF restart_pending THEN setup_turrets ELSE ts
SyncBullets(bs) == IF restart_pending THEN <<>> ELSE bs
SyncTiles(tl) == IF restart_pending THEN setup_tiles ELSE tl

\* The entities a world with the turrets ts and one tile per cell holds.
Census(ts) ==
    [turret |-> [p \in Participant |-> IF ts[p].exists THEN 1 ELSE 0],
     tile |-> [t \in Tile |-> 1]]

\* A plausible slip: the garbage query of restart finds the bullets only.
Garbage_bullets_only(c) == [p \in Participant |-> 0]

\* The turret entities restart despawns: all that its garbage query finds.
Garbage(c) == c.turret

\* restart's commands: the garbage and the children of the tile root are
\* despawned, one tile per cell and one turret per participant are spawned.
ApplyRestart(c) ==
    [turret |-> [p \in Participant |-> c.turret[p] - Garbage(c)[p] + 1],
     tile |-> [t \in Tile |-> c.tile[t] - c.tile[t] + 1]]

SyncCensus(c) == IF restart_pending THEN ApplyRestart(c) ELSE c

\* ------------------------------------------------- the physics engine
RECURSIVE DistinctSeqs(_, _)
\* The sequences of at most n distinct elements of S.
DistinctSeqs(S, n) ==
    IF n = 0 THEN {<<>>}
    ELSE {<<>>} \cup UNION {{<<x>> \o q : q \in DistinctSeqs(S \ {x}, n - 1)} : x \in S}

RECURSIVE Seqs(_, _)
\* The sequences of at most n elements of S.
Seqs(S, n) ==
    IF n = 0 THEN {<<>>}
    ELSE {<<>>} \cup UNION {{<<x>> \o q : q \in Seqs(S, n - 1)} : x \in S}

\* The pairs the collision groups let the engine report: a bullet and a tile, a
\* bullet and a turret, whose groups interact.
PossibleContacts(bs, ts, tl) ==
    UNION {{TileContact(b, t) :
               t \in {u \in Tile : Interacts(bs[b].collision_groups,
                                              tl[u].collision_groups)}}
           \cup {TurretContact(b, p) :
                    p \in {q \in Participant :
                              /\ ts[q].exists
                              /\ Interacts(bs[b].collision_groups,
                                           turret_collision_groups(q))}}
           : b \in {i \in 1 .. Len(bs) : bs[i].stepped}}

\* The entities of a panel a CollisionEvent can name: the worker ball of a
\* participant, a trigger zone with its TriggerType, anything else.
WorkerBall(p) ==
    [kind |-> "ball", participant |-> p, trigger_type |-> "none", factor |-> 1]

TriggerZone(ty, f) ==
    [kind |-> "zone", participant |-> "none", trigger_type |-> ty, factor |-> f]

Obstacle ==
    [kind |-> "other", participant |-> "none", trigger_type |-> "none", factor |-> 1]

TriggerZones ==
    {TriggerZone("Multiply", f) : f \in Factors}
    \cup {TriggerZone(ty, 1) : ty \in {"BurstShot", "ChargedShot"}}

Started(a, b) == [started |-> TRUE, a |-> a, b |-> b]
Stopped(a, b) == [started |-> FALSE, a |-> a, b |-> b]

\* The collision starts of the panels that matter to a match: a worker ball in
\* the world enters a trigger zone.
PossibleZoneContacts(w) ==
    {Started(WorkerBall(p), z) : p \in {q \in Participant : w[q]}, z \in TriggerZones}

\* Every CollisionEvent a panel can produce: starts and stops, in both orders,
\* of any two of its entities.
PanelCollisions(w) ==
    LET entities == {WorkerBall(p) : p \in {q \in Participant : w[q]}}
                    \cup TriggerZones \cup {Obstacle}
    IN  {Started(a, b) : a \in entities, b \in entities}
        \cup {Stopped(a, b) : a \in entities, b \in entities}

\* trigger_zone_query.get and worker_ball_query.get: Ok or Err.
is_trigger_zone(e) == e.kind = "zone"
is_worker_ball(w, e) == e.kind = "ball" /\ w[e.participant]

\* The translation that looks for the zone in a and for the ball in b only.
trigger_of_ordered(w, ev) ==
    IF ev.started /\ is_trigger_zone(ev.a) /\ is_worker_ball(w, ev.b)
    THEN <<[participant |-> ev.b.participant, trigger_type |-> ev.a.trigger_type,
            factor |-> ev.a.factor]>>
    ELSE <<>>

\* One CollisionEvent: the TriggerEvent it sends, or none.
trigger_of(w, ev) ==
    IF ~ev.started THEN <<>>
    ELSE IF ~(is_trigger_zone(ev.a) \/ is_trigger_zone(ev.b)) THEN <<>>
    ELSE IF ~(is_worker_ball(w, ev.a) \/ is_worker_ball(w, ev.b)) THEN <<>>
    ELSE LET zone == IF is_trigger_zone(ev.a) THEN ev.a ELSE ev.b
             ball == IF is_worker_ball(w, ev.a) THEN ev.a ELSE ev.b
         IN  <<[participant |-> ball.participant, trigger_type |-> zone.trigger_type,
                factor |-> zone.factor]>>

RECURSIVE TriggerEventsOf(_, _)
\* The TriggerEvents sent for the CollisionEvents read, in their order.
TriggerEventsOf(w, collision_events) ==
    IF collision_events = <<>> THEN <<>>
    ELSE trigger_of(w, Head(collision_events))
            \o TriggerEventsOf(w, Tail(collision_events))

\* ------------------------------------------------------------ the frame
UpdatePcs == {"tile", "turret", "trigger", "level", "elim", "post"}

NewFrame ==
    [start_count |-> survivor_count, restarted |-> FALSE, collided |-> FALSE,
     zeroed |-> {}, emitted |-> {}, handled |-> {}]

\* A plausible slip: the bullet changes its groups and keeps the marker.
drop_new_bullet_kept(b) ==
    [b EXCEPT !.collision_groups =
                 CollisionGroups(bullet(b.owner),
                                 BATTLEFIELD_ROOT \cup ALL_BULLETS \cup ALL_NEW_BULLETS
                                    \cup ALL_TURRETS \cup all_tiles_except(b.owner)),
              !.solver_groups =
                 CollisionGroups(bullet(b.owner),
                                 BATTLEFIELD_ROOT \cup ALL_BULLETS \cup ALL_NEW_BULLETS
                                    \cup ALL_TURRETS)]

\* The bullet leaves the sub-layer of new bullets: its groups become those of a
\* bullet of its participant and the marker NewBullet is removed.
drop_new_bullet(b) ==
    [b EXCEPT !.collision_groups =
                 CollisionGroups(bullet(b.owner),
                                 BATTLEFIELD_ROOT \cup ALL_BULLETS \cup ALL_NEW_BULLETS
                                    \cup ALL_TURRETS \cup all_tiles_except(b.owner)),
              !.solver_groups =
                 CollisionGroups(bullet(b.owner),
                                 BATTLEFIELD_ROOT \cup ALL_BULLETS \cup ALL_NEW_BULLETS
                                    \cup ALL_TURRETS),
              !.NewBullet = FALSE]

\* update_bullets_solver_groups, clear being the bullets that are outside the
\* corner zones and have no active contact.
update_bullets_solver_groups_on(clear) ==
    /\ bullets' = [i \in 1 .. Len(bullets) |->
                     IF bullets[i].NewBullet /\ i \in clear
                     THEN drop_new_bullet(bullets[i])
                     ELSE bullets[i]]
    /\ pc' = "fixed"
    /\ UNCHANGED <<turrets, tiles, survivor_count, survivors, workers, contacts,
                   zone_read, trigger_events, elimination_events, restart_trig,
                   restart_sys, restart_pending, doomed, now, budget, frame, census,
                   instance_manager, spawner>>

\* FixedUpdate, before fire_shots.  Where a bullet is and what it touches is the
\* physics engine's: any of the new bullets may be clear.  A frame with no fixed
\* tick is the step on which none is.
update_bullets_solver_groups ==
    /\ pc = "solver"
    /\ \E clear \in SUBSET {i \in 1 .. Len(bullets) : bullets[i].NewBullet} :
          update_bullets_solver_groups_on(clear)

\* FixedUpdate: one fixed tick, then Update.
fire_shots ==
    /\ pc = "fixed"
    /\ game_is_going
    /\ LET spawned == SpawnShots(turrets, ALL) IN
       /\ Len(bullets) + Len(spawned) <= MaxBullets
       /\ bullets' = bullets \o spawned
       /\ turrets' = [p \in Participant |->
                        [turrets[p] EXCEPT !.firing_queue = Fire(turrets[p]).queue]]
    /\ pc' = "tile"
    /\ UNCHANGED <<tiles, survivor_count, survivors, workers, contacts, zone_read,
                   trigger_events, elimination_events, restart_trig, restart_sys,
                   restart_pending, doomed, now, budget, frame>>
    /\ UNCHANGED <<census, instance_manager, spawner>>

\* A frame with no fixed tick, or with fire_shots disabled by its run condition.
fire_shots_idle ==
    /\ pc = "fixed"
    /\ pc' = "tile"
    /\ UNCHANGED <<turrets, bullets, tiles, survivor_count, survivors, workers, contacts,
                   zone_read, trigger_events, elimination_events, restart_trig,
                   restart_sys, restart_pending, doomed, now, budget, frame>>
    /\ UNCHANGED <<census, instance_manager, spawner>>

\* Update, before handle_bullet_tile_collision.  With nothing dispatched it
\* changes nothing.
cleanup_particle_emitters ==
    /\ pc = "tile"
    /\ instance_manager.dispatched # <<>>
    /\ instance_manager' = instance_manager_reset(instance_manager)
    /\ UNCHANGED <<turrets, bullets, tiles, survivor_count, survivors, workers, contacts,
                   zone_read, trigger_events, elimination_events, restart_trig,
                   restart_sys, restart_pending, doomed, now, pc, budget, frame, census,
                   spawner>>

\* The first reader of the collision events the last physics step reported: they
\* are drawn here.  Then the synchronisation point before
\* handle_bullet_turret_collision.
handle_bullet_tile_collision ==
    /\ pc = "tile"
    /\ contacts' \in DistinctSeqs(PossibleContacts(bullets, turrets, tiles),
                                  Min(MaxContacts, MaxContactsTotal - budget.contacts))
    /\ budget' = [budget EXCEPT !.contacts = @ + Len(contacts')]
    /\ LET s == TileFold([bullets |-> bullets, tiles |-> tiles], contacts') IN
       /\ bullets' = SyncBullets(s.bullets)
       /\ tiles' = SyncTiles(s.tiles)
    /\ turrets' = SyncTurrets(turrets)
    /\ restart_pending' = FALSE
    /\ pc' = "turret"
    /\ UNCHANGED <<survivor_count, survivors, workers, zone_read,
                   trigger_events, elimination_events, restart_trig, restart_sys,
                   doomed, now, frame>>
    /\ census' = SyncCensus(census)
    /\ UNCHANGED spawner
    /\ instance_manager.dispatched = <<>>
    /\ instance_manager' =
          TileHitEffects(instance_manager,
                         Captures(bullets,
                                  TileFold([bullets |-> bullets, tiles |-> tiles],
                                           contacts').bullets))

handle_bullet_turret_collision ==
    /\ pc = "turret"
    /\ game_is_going
    /\ LET s == TurretFold([bullets |-> bullets, turrets |-> turrets], contacts) IN
       /\ bullets' = s.bullets
       /\ turrets' = s.turrets
       /\ frame' = [frame EXCEPT
                      !.collided = TRUE,
                      !.zeroed = {p \in Participant :
                                    /\ turrets[p].exists
                                    /\ turrets[p].charge.value > 0
                                    /\ s.turrets[p].charge.value = 0}]
    /\ contacts' = <<>>
    /\ pc' = "trigger"
    /\ UNCHANGED <<tiles, survivor_count, survivors, workers, zone_read,
                   trigger_events, elimination_events, restart_trig, restart_sys,
                   restart_pending, doomed, now, budget>>
    /\ UNCHANGED <<census, instance_manager, spawner>>

\* The run condition game_is_going is false: the system does not run, and the
\* events of this frame are gone before it runs again.
handle_bullet_turret_collision_off ==
    /\ pc = "turret"
    /\ ~game_is_going
    /\ contacts' = <<>>
    /\ pc' = "trigger"
    /\ UNCHANGED <<turrets, bullets, tiles, survivor_count, survivors, workers,
                   zone_read, trigger_events, elimination_events, restart_trig,
                   restart_sys, restart_pending, doomed, now, budget, frame>>
    /\ UNCHANGED <<census, instance_manager, spawner>>

\* A plausible slip: a pending RestartEvent is cleared, the TriggerEvents are read.
handle_trigger_events_not_cleared ==
    /\ pc = "trigger"
    /\ trigger_events # <<>> \/ restart_trig
    /\ turrets' = TriggerFold(turrets, trigger_events, ~restart_pending)
    /\ trigger_events' = <<>>
    /\ restart_trig' = FALSE
    /\ pc' = "level"
    /\ UNCHANGED <<bullets, tiles, survivor_count, survivors, workers, contacts,
                   zone_read, elimination_events, restart_sys, restart_pending,
                   doomed, now, budget, frame, census,
                   instance_manager, spawner>>

\* Runs on a TriggerEvent or a RestartEvent; a pending RestartEvent clears both.
handle_trigger_events ==
    /\ pc = "trigger"
    /\ trigger_events # <<>> \/ restart_trig
    /\ turrets' = IF restart_trig THEN turrets
                  ELSE TriggerFold(turrets, trigger_events, ~restart_pending)
    /\ trigger_events' = <<>>
    /\ restart_trig' = FALSE
    /\ pc' = "level"
    /\ UNCHANGED <<bullets, tiles, survivor_count, survivors, workers, contacts,
                   zone_read, elimination_events, restart_sys, restart_pending,
                   doomed, now, budget, frame>>
    /\ UNCHANGED <<census, instance_manager, spawner>>

handle_trigger_events_off ==
    /\ pc = "trigger"
    /\ trigger_events = <<>> /\ ~restart_trig
    /\ pc' = "level"
    /\ UNCHANGED <<turrets, bullets, tiles, survivor_count, survivors, workers, contacts,
                   zone_read, trigger_events, elimination_events, restart_trig,
                   restart_sys, restart_pending, doomed, now, budget, frame>>
    /\ UNCHANGED <<census, instance_manager, spawner>>

\* Then the synchronisation point before handle_elimination.
update_charge_level ==
    /\ pc = "level"
    /\ LET events == EliminationEvents(turrets, ALL) IN
       /\ elimination_events' = elimination_events \o events
       /\ frame' = [frame EXCEPT !.emitted = Range(events)]
    /\ turrets' = SyncTurrets([p \in Participant |-> LevelTurret(turrets[p])])
    /\ bullets' = SyncBullets(LevelBullets(bullets))
    /\ tiles' = SyncTiles(tiles)
    /\ restart_pending' = FALSE
    /\ pc' = "elim"
    /\ UNCHANGED <<survivor_count, survivors, workers, contacts, zone_read,
                   trigger_events, restart_trig, restart_sys, doomed, now, budget>>
    /\ census' = SyncCensus(census)
    /\ UNCHANGED <<instance_manager, spawner>>

handle_elimination ==
    /\ pc = "elim"
    /\ elimination_events # <<>>
    /\ LET s == Eliminate([count |-> survivor_count, survivors |-> survivors],
                          elimination_events) IN
       /\ survivor_count' = s.count
       /\ survivors' = s.survivors
    /\ doomed' = doomed \cup Range(elimination_events)
    /\ frame' = [frame EXCEPT !.handled = Range(elimination_events)]
    /\ elimination_events' = <<>>
    /\ pc' = "post"
    /\ UNCHANGED <<turrets, bullets, tiles, workers, contacts, zone_read,
                   trigger_events, restart_trig, restart_sys, restart_pending, now,
                   budget>>
    /\ UNCHANGED <<census, instance_manager, spawner>>

handle_elimination_off ==
    /\ pc = "elim"
    /\ elimination_events = <<>>
    /\ pc' = "post"
    /\ UNCHANGED <<turrets, bullets, tiles, survivor_count, survivors, workers, contacts,
                   zone_read, trigger_events, elimination_events, restart_trig,
                   restart_sys, restart_pending, doomed, now, budget, frame>>
    /\ UNCHANGED <<census, instance_manager, spawner>>

\* ------------------------------------- systems with no ordering constraint
restart ==
    /\ pc \in UpdatePcs
    /\ restart_sys \in {"new", "old"}
    /\ survivor_count' = SURVIVOR_COUNT_DEFAULT
    /\ survivors' = [p \in Participant |-> TRUE]
    /\ restart_pending' = TRUE
    /\ restart_sys' = "done"
    /\ frame' = [frame EXCEPT !.restarted = TRUE]
    /\ UNCHANGED <<turrets, bullets, tiles, workers, contacts, zone_read,
                   trigger_events, elimination_events, restart_trig, doomed, now, pc,
                   budget>>
    /\ UNCHANGED <<census, instance_manager, spawner>>

\* A plausible slip: the button is served in every frame.
button_system_enabled ==
    /\ pc \in UpdatePcs
    /\ budget.restarts < MaxRestarts
    /\ restart_sys \in {"none", "old", "done"}
    /\ restart_sys' = CASE restart_sys = "none" -> "new"
                        [] restart_sys = "done" -> "late"
                        [] OTHER -> "old"
    /\ restart_trig' = TRUE
    /\ budget' = [budget EXCEPT !.restarts = @ + 1]
    /\ UNCHANGED <<turrets, bullets, tiles, survivor_count, survivors, workers, contacts,
                   zone_read, trigger_events, elimination_events, restart_pending,
                   doomed, now, pc, frame>>
    /\ UNCHANGED <<census, instance_manager, spawner>>

\* The restart button is pressed: runs only while the game is not going.
button_system ==
    /\ pc \in UpdatePcs
    /\ ~game_is_going
    /\ budget.restarts < MaxRestarts
    /\ restart_sys \in {"none", "old", "done"}
    /\ restart_sys' = CASE restart_sys = "none" -> "new"
                        [] restart_sys = "done" -> "late"
                        [] OTHER -> "old"
    /\ restart_trig' = TRUE
    /\ budget' = [budget EXCEPT !.restarts = @ + 1]
    /\ UNCHANGED <<turrets, bullets, tiles, survivor_count, survivors, workers, contacts,
                   zone_read, trigger_events, elimination_events, restart_pending,
                   doomed, now, pc, frame>>
    /\ UNCHANGED <<census, instance_manager, spawner>>

\* panel_plugin: the worker balls that entered a trigger zone in the last physics
\* step, drawn when trigger_event reads them.
\* trigger_event on the CollisionEvents its reader finds.
trigger_event_on(collision_events) ==
    /\ trigger_events' = trigger_events \o TriggerEventsOf(workers, collision_events)
    /\ budget' = [budget EXCEPT
                     !.zones = @ + Len(TriggerEventsOf(workers, collision_events))]
    /\ zone_read' = TRUE
    /\ UNCHANGED <<turrets, bullets, tiles, survivor_count, survivors, workers, contacts,
                   elimination_events, restart_trig, restart_sys, restart_pending,
                   doomed, now, pc, frame>>
    /\ UNCHANGED <<census, instance_manager, spawner>>

trigger_event ==
    /\ pc \in UpdatePcs
    /\ ~zone_read
    /\ game_is_going
    /\ \E zone_contacts \in Seqs(PossibleZoneContacts(workers),
                                 Min(MaxZones, MaxZoneTotal - budget.zones)) :
          /\ zone_contacts # <<>>
          /\ trigger_event_on(zone_contacts)

\* Its run condition is false: the contacts of this frame are never translated.
trigger_event_off ==
    /\ pc \in UpdatePcs
    /\ ~zone_read
    /\ ~game_is_going
    /\ \E zone_contacts \in Seqs(PossibleZoneContacts(workers),
                                 Min(MaxZones, MaxZoneTotal - budget.zones)) :
          /\ zone_contacts # <<>>
          /\ budget' = [budget EXCEPT !.zones = @ + Len(zone_contacts)]
    /\ zone_read' = TRUE
    /\ UNCHANGED <<turrets, bullets, tiles, survivor_count, survivors, workers, contacts,
                   trigger_events, elimination_events, restart_trig, restart_sys,
                   restart_pending, doomed, now, pc, frame>>
    /\ UNCHANGED <<census, instance_manager, spawner>>

\* WorkerBallSpawner as setup inserts it: no ball spawned, the timer 0.2 s
\* before its end.
NewSpawner ==
    [counter |-> 0, timer |-> WORKER_BALL_SPAWN_TIMER_SECS * TIMER_TICKS - 1,
     ran |-> FALSE, panicked |-> FALSE]

\* The spawner of a match that has lasted: every round of balls has been
\* spawned, and nothing resets the counter.
SpawnedOut ==
    [counter |-> WORKER_BALL_COUNT_MAX, timer |-> 0, ran |-> FALSE, panicked |-> FALSE]

spawn_workers_condition == spawner.counter < WORKER_BALL_COUNT_MAX

\* Timer::tick of a repeating timer by delta seconds: [elapsed, just_finished].
timer_tick(timer, delta) ==
    [elapsed |-> (timer + delta * TIMER_TICKS)
                    % (WORKER_BALL_SPAWN_TIMER_SECS * TIMER_TICKS),
     just_finished |-> timer + delta * TIMER_TICKS
                          >= WORKER_BALL_SPAWN_TIMER_SECS * TIMER_TICKS]

\* The closure f of spawn_workers on the panel of a and b: the participants it
\* spawns a ball for, and whether it reaches unimplemented!().
panel_spawn(sv, a, b) ==
    CASE ~sv[a] /\ ~sv[b] -> [spawned |-> {}, panicked |-> FALSE]
      [] sv[a] /\ sv[b] -> [spawned |-> {a, b}, panicked |-> FALSE]
      [] OTHER -> [spawned |-> {p \in {a, b} : sv[p]}, panicked |-> TRUE]

\* spawn_workers has no ordering edge to the battlefield systems: it runs once
\* in a frame, anywhere in Update, if its run condition holds there.  The
\* left panel is served before the right one; a panic ends the system at once,
\* before the counter is incremented.  workers tells the balls spawned as soon
\* as their spawn is queued.
spawn_workers ==
    /\ pc \in UpdatePcs
    /\ ~spawner.ran
    /\ ~spawner.panicked
    /\ game_is_going
    /\ spawn_workers_condition
    /\ LET t == timer_tick(spawner.timer, FrameSeconds)
           left == panel_spawn(survivors, "A", "B")
           right == panel_spawn(survivors, "C", "D")
       IN  IF ~t.just_finished
           THEN /\ spawner' = [spawner EXCEPT !.timer = t.elapsed, !.ran = TRUE]
                /\ workers' = workers
           ELSE IF left.panicked \/ right.panicked
           THEN /\ spawner' = [spawner EXCEPT !.timer = t.elapsed, !.ran = TRUE,
                                              !.panicked = TRUE]
                /\ workers' = workers
           ELSE /\ spawner' = [spawner EXCEPT !.timer = t.elapsed, !.ran = TRUE,
                                              !.counter = @ + 1]
                /\ workers' = [p \in Participant |->
                                 workers[p] \/ p \in left.spawned \cup right.spawned]
    /\ UNCHANGED <<turrets, bullets, tiles, survivor_count, survivors, contacts,
                   zone_read, trigger_events, elimination_events, restart_trig,
                   restart_sys, restart_pending, doomed, now, pc, budget, frame, census,
                   instance_manager>>

\* ------------------------------------------------------ the physics step
\* A plausible slip: the despawn of an eliminated participant's entities leaves
\* its turret out.
physics_turret_kept ==
    /\ pc = "post"
    /\ restart_sys # "old"
    /\ spawner.ran \/ ~(game_is_going /\ spawn_workers_condition)
    /\ budget.frames < MaxFrames
    /\ turrets' = IF restart_pending THEN setup_turrets ELSE turrets
    /\ bullets' = [i \in 1 .. Len(SyncBullets(bullets)) |->
                     [bullets[i] EXCEPT !.stepped = TRUE]]
    /\ tiles' = SyncTiles(tiles)
    /\ workers' = [p \in Participant |-> workers[p] /\ p \notin doomed]
    /\ contacts' = <<>>
    /\ zone_read' = FALSE
    /\ budget' = [budget EXCEPT !.frames = @ + 1]
    /\ doomed' = {}
    /\ restart_pending' = FALSE
    /\ restart_sys' = IF restart_sys \in {"new", "late"} THEN "old" ELSE "none"
    /\ now' = now + FrameSeconds
    /\ pc' = "solver"
    /\ frame' = NewFrame
    /\ UNCHANGED <<survivor_count, survivors, trigger_events, elimination_events,
                   restart_trig>>
    /\ UNCHANGED instance_manager
    /\ spawner' = [spawner EXCEPT !.ran = FALSE]
    /\ census' = IF restart_pending THEN ApplyRestart(census)
               ELSE [census EXCEPT !.turret = [p \in Participant |->
                                                 IF p \in doomed THEN 0 ELSE @[p]]]

\* The end of Update applies the last commands; PostUpdate steps the physics
\* engine, which reports the collisions the next frame reads; time advances.
physics ==
    /\ pc = "post"
    /\ restart_sys # "old"
    /\ spawner.ran \/ ~(game_is_going /\ spawn_workers_condition)
    /\ budget.frames < MaxFrames
    /\ turrets' = IF restart_pending THEN setup_turrets
                  ELSE [p \in Participant |->
                          IF p \in doomed THEN NoTurret ELSE turrets[p]]
    /\ bullets' = [i \in 1 .. Len(SyncBullets(bullets)) |->
                     [bullets[i] EXCEPT !.stepped = TRUE]]
    /\ tiles' = SyncTiles(tiles)
    /\ workers' = [p \in Participant |-> workers[p] /\ p \notin doomed]
    /\ contacts' = <<>>
    /\ zone_read' = FALSE
    /\ budget' = [budget EXCEPT !.frames = @ + 1]
    /\ doomed' = {}
    /\ restart_pending' = FALSE
    /\ restart_sys' = IF restart_sys \in {"new", "late"} THEN "old" ELSE "none"
    /\ now' = now + FrameSeconds
    /\ pc' = "solver"
    /\ frame' = NewFrame
    /\ UNCHANGED <<survivor_count, survivors, trigger_events, elimination_events,
                   restart_trig>>
    /\ UNCHANGED instance_manager
    /\ spawner' = [spawner EXCEPT !.ran = FALSE]
    /\ census' = IF restart_pending THEN ApplyRestart(census)
               ELSE [census EXCEPT !.turret = [p \in Participant |->
                                                 IF p \in doomed THEN 0 ELSE @[p]]]

\* ------------------------------------------------------------------ Init
\* A turret that has fired and not been hit, settled by update_charge_level.
SettledTurret(value, last_hit) ==
    [NewTurret EXCEPT !.charge = from_value(value), !.changed = FALSE,
                      !.last_hit_timestamp = last_hit]

\* A match in progress at the end of a quiet frame: the participants of alive have
\* their turrets and worker balls, the others are eliminated.  Time is counted
\* from a frame of the match; only its differences are read.
Match(alive, ts) ==
    /\ turrets = [p \in Participant |-> IF p \in alive THEN ts[p] ELSE NoTurret]
    /\ bullets = <<>>
    /\ tiles = setup_tiles
    /\ survivor_count = Cardinality(alive)
    /\ survivors = [p \in Participant |-> p \in alive]
    /\ workers = [p \in Participant |-> p \in alive]
    /\ contacts = <<>>
    /\ zone_read = FALSE
    /\ trigger_events = <<>>
    /\ elimination_events = <<>>
    /\ restart_trig = FALSE
    /\ restart_sys = "none"
    /\ restart_pending = FALSE
    /\ doomed = {}
    /\ now = FrameSeconds
    /\ pc = "post"
    /\ budget = [frames |-> 0, contacts |-> 0, zones |-> 0, restarts |-> 0]
    /\ frame = [start_count |-> Cardinality(alive), restarted |-> FALSE,
                collided |-> FALSE, zeroed |-> {}, emitted |-> {},
                handled |-> {}]
    /\ census = Census(turrets)
    /\ instance_manager = DefaultManager
    /\ spawner = SpawnedOut

Fresh == SettledTurret(BOOSTED_TURRET_CHARGE_VALUE, -TURRET_BOOST_COOLDOWN)

\* Two matches in progress, both reached from the state setup builds: D was shot
\* out by charged shots and the turrets that fired are back at the boosted charge;
\* C and D are out and B's turret was hit down to 3 a frame ago.
Init ==
    \/ Match({"A", "B", "C"}, [p \in Participant |-> Fresh])
    \/ Match({"A", "B"},
             [p \in Participant |-> IF p = "B" THEN SettledTurret(3, 0) ELSE Fresh])

Next ==
    \/ update_bullets_solver_groups
    \/ fire_shots
    \/ fire_shots_idle
    \/ cleanup_particle_emitters
    \/ handle_bullet_tile_collision
    \/ handle_bullet_turret_collision
    \/ handle_bullet_turret_collision_off
    \/ handle_trigger_events
    \/ handle_trigger_events_off
    \/ update_charge_level
    \/ handle_elimination
    \/ handle_elimination_off
    \/ restart
    \/ button_system
    \/ trigger_event
    \/ trigger_event_off
    \/ physics

Spec == Init /\ [][Next]_vars

\* ------------------------------------------------------------- the duel
\* The last two turrets of a match, both at the boosted charge.
InitDuel == Match({"A", "B"}, [p \in Participant |-> Fresh])

SpecDuel == InitDuel /\ [][Next]_vars

\* -------------------------------------------------------- the workers
\* A new match at the end of a frame: four turrets, the first round of worker
\* balls spawned, and the ball of one participant has entered the zone of the
\* charged shot.  No other ball enters a zone in the frames that follow.
InitWorkers ==
  \E shooter \in Participant :
    /\ turrets = [p \in Participant |-> Fresh]
    /\ bullets = <<>>
    /\ tiles = setup_tiles
    /\ survivor_count = SURVIVOR_COUNT_DEFAULT
    /\ survivors = [p \in Participant |-> TRUE]
    /\ workers = [p \in Participant |-> TRUE]
    /\ contacts = <<>>
    /\ zone_read = TRUE
    /\ trigger_events = <<[participant |-> shooter, trigger_type |-> "ChargedShot",
                           factor |-> 1]>>
    /\ elimination_events = <<>>
    /\ restart_trig = FALSE
    /\ restart_sys = "none"
    /\ restart_pending = FALSE
    /\ doomed = {}
    /\ now = FrameSeconds
    /\ pc = "post"
    /\ budget = [frames |-> 0, contacts |-> 0, zones |-> MaxZoneTotal,
                 restarts |-> MaxRestarts]
    /\ frame = [start_count |-> SURVIVOR_COUNT_DEFAULT, restarted |-> FALSE,
                collided |-> FALSE, zeroed |-> {}, emitted |-> {}, handled |-> {}]
    /\ census = Census(turrets)
    /\ instance_manager = DefaultManager
    /\ spawner = [NewSpawner EXCEPT
                    !.counter = 1,
                    !.timer = timer_tick(NewSpawner.timer, FrameSeconds).elapsed,
                    !.ran = TRUE]

\* The systems that run in such a match; a panic ends the program.
NextWorkers ==
    \/ spawn_workers
    \/ ~spawner.panicked /\ update_bullets_solver_groups
    \/ ~spawner.panicked /\ fire_shots
    \/ ~spawner.panicked /\ fire_shots_idle
    \/ ~spawner.panicked /\ cleanup_particle_emitters
    \/ ~spawner.panicked /\ handle_bullet_tile_collision
    \/ ~spawner.panicked /\ handle_bullet_turret_collision
    \/ ~spawner.panicked /\ handle_trigger_events
    \/ ~spawner.panicked /\ handle_trigger_events_off
    \/ ~spawner.panicked /\ update_charge_level
    \/ ~spawner.panicked /\ handle_elimination
    \/ ~spawner.panicked /\ handle_elimination_off
    \/ ~spawner.panicked /\ physics

SpecWorkers == InitWorkers /\ [][NextWorkers]_vars

\* ------------------------------------------------------- the burst drain
\* The levels of the queued burst the drain is run from.
MaxBurstLevel == 20

\* A match of A and B in which A's turret holds one queued burst of level l.
InitBurst ==
    \E l \in 1 .. MaxBurstLevel :
       /\ turrets = [p \in Participant |->
                       IF p = "A"
                       THEN [Fresh EXCEPT !.firing_queue =
                                <<[shot_type |-> "Multi", charge |-> from_value(2 ^ (l - 1))]>>]
                       ELSE IF p = "B" THEN Fresh ELSE NoTurret]
       /\ bullets = <<>>
       /\ tiles = setup_tiles
       /\ survivor_count = 2
       /\ survivors = [p \in Participant |-> p \in {"A", "B"}]
       /\ workers = [p \in Participant |-> p \in {"A", "B"}]
       /\ contacts = <<>>
       /\ zone_read = FALSE
       /\ trigger_events = <<>>
       /\ elimination_events = <<>>
       /\ restart_trig = FALSE
       /\ restart_sys = "none"
       /\ restart_pending = FALSE
       /\ doomed = {}
       /\ now = FrameSeconds
       /\ pc = "fixed"
       /\ budget = [frames |-> 0, contacts |-> 0, zones |-> 0, restarts |-> 0]
       /\ frame = NewFrame
       /\ census = Census(turrets)
       /\ instance_manager = DefaultManager
       /\ spawner = SpawnedOut

\* One fixed tick of fire_shots after another, with no event in between; bullets
\* holds the pellets of the last tick only.
burst_tick ==
    /\ pc = "fixed"
    /\ game_is_going
    /\ bullets' = SpawnShots(turrets, ALL)
    /\ turrets' = [p \in Participant |->
                     [turrets[p] EXCEPT !.firing_queue = Fire(turrets[p]).queue]]
    /\ UNCHANGED <<tiles, survivor_count, survivors, workers, contacts, zone_read,
                   trigger_events, elimination_events, restart_trig, restart_sys,
                   restart_pending, doomed, now, pc, budget, frame>>
    /\ UNCHANGED <<census, instance_manager, spawner>>

SpecBurst == InitBurst /\ [][burst_tick]_vars

\* ------------------------------------------------------ the firing queue
\* The values of the charges queued at the start.
QueueValues == {1, 3, 16}

QueueEntries ==
    {[shot_type |-> st, charge |-> from_value(v)] : st \in ShotType, v \in QueueValues}

\* A match of A and B in which A's turret holds up to two queued shots.
InitQueue ==
    \E q \in Seqs(QueueEntries, 2) :
       /\ turrets = [p \in Participant |->
                       IF p = "A" THEN [Fresh EXCEPT !.firing_queue = q]
                       ELSE IF p = "B" THEN Fresh ELSE NoTurret]
       /\ bullets = <<>>
       /\ tiles = setup_tiles
       /\ survivor_count = 2
       /\ survivors = [p \in Participant |-> p \in {"A", "B"}]
       /\ workers = [p \in Participant |-> p \in {"A", "B"}]
       /\ contacts = <<>>
       /\ zone_read = FALSE
       /\ trigger_events = <<>>
       /\ elimination_events = <<>>
       /\ restart_trig = FALSE
       /\ restart_sys = "none"
       /\ restart_pending = FALSE
       /\ doomed = {}
       /\ now = FrameSeconds
       /\ pc = "fixed"
       /\ budget = [frames |-> 0, contacts |-> 0, zones |-> 0, restarts |-> 0]
       /\ frame = NewFrame
       /\ census = Census(turrets)
       /\ instance_manager = DefaultManager
       /\ spawner = SpawnedOut

\* handle_trigger_events on one shot trigger for A, between two fixed ticks.
trigger_between_ticks ==
    /\ pc = "fixed"
    /\ budget.zones < MaxZoneTotal
    /\ \E ty \in {"BurstShot", "ChargedShot"} :
          turrets' = Trigger(turrets,
                             [participant |-> "A", trigger_type |-> ty, factor |-> 1],
                             TRUE)
    /\ budget' = [budget EXCEPT !.zones = @ + 1]
    /\ UNCHANGED <<bullets, tiles, survivor_count, survivors, workers, contacts,
                   zone_read, trigger_events, elimination_events, restart_trig,
                   restart_sys, restart_pending, doomed, now, pc, frame, census,
                   instance_manager, spawner>>

NextQueue ==
    \/ burst_tick
    \/ trigger_between_ticks

\* The fixed ticks are scheduled fairly.
SpecQueue == InitQueue /\ [][NextQueue]_vars /\ WF_vars(burst_tick)

\* ------------------------------------------------------- the end of a match
\* A match that is over, at the end of a quiet frame: A is the last survivor, its
\* turret back at the boosted charge, and a charged shot B fired before it was
\* eliminated is still in flight.
InitOver ==
    /\ turrets = [p \in Participant |-> IF p = "A" THEN Fresh ELSE NoTurret]
    /\ bullets = <<[drop_new_bullet(BulletBundle("B", spawn_position("B", DefaultCharge),
                                                 DefaultCharge))
                       EXCEPT !.changed = FALSE, !.stepped = TRUE]>>
    /\ tiles = setup_tiles
    /\ survivor_count = 1
    /\ survivors = [p \in Participant |-> p = "A"]
    /\ workers = [p \in Participant |-> p = "A"]
    /\ contacts = <<>>
    /\ zone_read = FALSE
    /\ trigger_events = <<>>
    /\ elimination_events = <<>>
    /\ restart_trig = FALSE
    /\ restart_sys = "none"
    /\ restart_pending = FALSE
    /\ doomed = {}
    /\ now = FrameSeconds
    /\ pc = "post"
    /\ budget = [frames |-> 0, contacts |-> 0, zones |-> 0, restarts |-> 0]
    /\ frame = [start_count |-> 1, restarted |-> FALSE, collided |-> FALSE,
                zeroed |-> {}, emitted |-> {}, handled |-> {}]
    /\ census = Census(turrets)
    /\ instance_manager = DefaultManager
    /\ spawner = SpawnedOut

SpecOver == InitOver /\ [][Next]_vars

\* ------------------------------------------------------------ the rematch
\* The rounds of worker balls spawn_workers has served when the match ends:
\* all of them, or all but one.
RematchCounters == {WORKER_BALL_COUNT_MAX - 1, WORKER_BALL_COUNT_MAX}

\* A match that is over, as in InitOver: the worker balls of B, C and D went
\* with their turrets.  The spawn timer is one frame from its end.
InitRematch ==
  \E served \in RematchCounters :
    /\ turrets = [p \in Participant |-> IF p = "A" THEN Fresh ELSE NoTurret]
    /\ bullets = <<[drop_new_bullet(BulletBundle("B", spawn_position("B", DefaultCharge),
                                                 DefaultCharge))
                       EXCEPT !.changed = FALSE, !.stepped = TRUE]>>
    /\ tiles = setup_tiles
    /\ survivor_count = 1
    /\ survivors = [p \in Participant |-> p = "A"]
    /\ workers = [p \in Participant |-> p = "A"]
    /\ contacts = <<>>
    /\ zone_read = FALSE
    /\ trigger_events = <<>>
    /\ elimination_events = <<>>
    /\ restart_trig = FALSE
    /\ restart_sys = "none"
    /\ restart_pending = FALSE
    /\ doomed = {}
    /\ now = FrameSeconds
    /\ pc = "post"
    /\ budget = [frames |-> 0, contacts |-> 0, zones |-> 0, restarts |-> 0]
    /\ frame = [start_count |-> 1, restarted |-> FALSE, collided |-> FALSE,
                zeroed |-> {}, emitted |-> {}, handled |-> {}]
    /\ census = Census(turrets)
    /\ instance_manager = DefaultManager
    /\ spawner = [NewSpawner EXCEPT !.counter = served]

\* Every system of the battlefield, the button and the panel; a panic ends the
\* program.
NextRematch ==
    \/ spawn_workers
    \/ ~spawner.panicked /\ update_bullets_solver_groups
    \/ ~spawner.panicked /\ fire_shots
    \/ ~spawner.panicked /\ fire_shots_idle
    \/ ~spawner.panicked /\ cleanup_particle_emitters
    \/ ~spawner.panicked /\ handle_bullet_tile_collision
    \/ ~spawner.panicked /\ handle_bullet_turret_collision
    \/ ~spawner.panicked /\ handle_bullet_turret_collision_off
    \/ ~spawner.panicked /\ handle_trigger_events
    \/ ~spawner.panicked /\ handle_trigger_events_off
    \/ ~spawner.panicked /\ update_charge_level
    \/ ~spawner.panicked /\ handle_elimination
    \/ ~spawner.panicked /\ handle_elimination_off
    \/ ~spawner.panicked /\ restart
    \/ ~spawner.panicked /\ button_system
    \/ ~spawner.panicked /\ trigger_event
    \/ ~spawner.panicked /\ trigger_event_off
    \/ ~spawner.panicked /\ physics

SpecRematch == InitRematch /\ [][NextRematch]_vars

\* ------------------------------------------------------ restart in a row
\* A match that is over, at the end of a frame: at most one participant is left,
\* the tiles are owned by anyone, a bullet may be in flight.
InitTwice ==
    \E alive \in {{}} \cup {{p} : p \in Participant},
       tl \in [Tile -> Participant],
       bs \in {<<>>, <<BulletBundle("B", spawn_position("B", DefaultCharge),
                                    DefaultCharge)>>} :
       /\ turrets = [p \in Participant |-> IF p \in alive THEN Fresh ELSE NoTurret]
       /\ bullets = bs
       /\ tiles = [t \in Tile |-> TileBundle(tl[t])]
       /\ survivor_count = Cardinality(alive)
       /\ survivors = [p \in Participant |-> p \in alive]
       /\ workers = [p \in Participant |-> p \in alive]
       /\ contacts = <<>>
       /\ zone_read = FALSE
       /\ trigger_events = <<>>
       /\ elimination_events = <<>>
       /\ restart_trig = FALSE
       /\ restart_sys = "none"
       /\ restart_pending = FALSE
       /\ doomed = {}
       /\ now = FrameSeconds
       /\ pc = "post"
       /\ budget = [frames |-> 0, contacts |-> 0, zones |-> 0, restarts |-> 0]
       /\ frame = [start_count |-> Cardinality(alive), restarted |-> FALSE,
                   collided |-> FALSE, zeroed |-> {}, emitted |-> {}, handled |-> {}]
       /\ census = Census(turrets)
       /\ instance_manager = DefaultManager
       /\ spawner = SpawnedOut

\* restart, run on its own with its commands applied when it returns.
restart_applied ==
    /\ budget.restarts < MaxRuns
    /\ survivor_count' = SURVIVOR_COUNT_DEFAULT
    /\ survivors' = [p \in Participant |-> TRUE]
    /\ turrets' = setup_turrets
    /\ bullets' = <<>>
    /\ tiles' = setup_tiles
    /\ census' = ApplyRestart(census)
    /\ UNCHANGED <<instance_manager, spawner>>
    /\ budget' = [budget EXCEPT !.restarts = @ + 1]
    /\ frame' = [frame EXCEPT !.restarted = TRUE]
    /\ UNCHANGED <<workers, contacts, zone_read, trigger_events, elimination_events,
                   restart_trig, restart_sys, restart_pending, doomed, now, pc>>

SpecTwice == InitTwice /\ [][restart_applied]_vars

\* ----------------------------------------------------- the level of a value
\* The values a level is computed for: the small ones, and the ones around the
\* powers of two up to where the conversion to f64 rounds.
LevelInputs ==
    (1 .. MaxU64) \cup {2 ^ k + d : k \in 6 .. (F64Mantissa + 1), d \in {-1, 0, 1}}

\* A match of A and B in which each turret lost 1 to a bullet in this tick: the
\* level each holds is the one of the value it had.
InitLevel ==
    \E a, b \in LevelInputs :
       /\ turrets = [p \in Participant |->
                       IF p = "A"
                       THEN [Fresh EXCEPT !.charge = [value |-> a,
                                                      level |-> calculate_level(a + 1)],
                                          !.changed = TRUE, !.last_hit_timestamp = FrameSeconds]
                       ELSE IF p = "B"
                       THEN [Fresh EXCEPT !.charge = [value |-> b,
                                                      level |-> calculate_level(b + 1)],
                                          !.changed = TRUE, !.last_hit_timestamp = FrameSeconds]
                       ELSE NoTurret]
       /\ bullets = <<>>
       /\ tiles = setup_tiles
       /\ survivor_count = 2
       /\ survivors = [p \in Participant |-> p \in {"A", "B"}]
       /\ workers = [p \in Participant |-> p \in {"A", "B"}]
       /\ contacts = <<>>
       /\ zone_read = TRUE
       /\ trigger_events = <<>>
       /\ elimination_events = <<>>
       /\ restart_trig = FALSE
       /\ restart_sys = "none"
       /\ restart_pending = FALSE
       /\ doomed = {}
       /\ now = FrameSeconds
       /\ pc = "level"
       /\ budget = [frames |-> 0, contacts |-> 0, zones |-> 0, restarts |-> 0]
       /\ frame = [NewFrame EXCEPT !.collided = TRUE]
       /\ census = Census(turrets)
       /\ instance_manager = DefaultManager
       /\ spawner = SpawnedOut

SpecLevel == InitLevel /\ [][update_charge_level]_vars

\* ------------------------------------------------------ a charged shot
\* A match of four at the end of a frame: A's turret was hit down to 8 and has
\* settled, a ChargedShot trigger for A was emitted in this frame, after
\* handle_trigger_events ran; each other turret is fresh or was hit down to 3.
\* The run has no other trigger and no restart.
InitShot ==
    \E low \in SUBSET {"B", "C", "D"} :
       /\ turrets = [p \in Participant |->
                       IF p = "A" THEN SettledTurret(8, 0)
                       ELSE IF p \in low THEN SettledTurret(3, 0)
                       ELSE Fresh]
       /\ bullets = <<>>
       /\ tiles = setup_tiles
       /\ survivor_count = SURVIVOR_COUNT_DEFAULT
       /\ survivors = [p \in Participant |-> TRUE]
       /\ workers = [p \in Participant |-> TRUE]
       /\ contacts = <<>>
       /\ zone_read = TRUE
       /\ trigger_events = <<[participant |-> "A", trigger_type |-> "ChargedShot",
                              factor |-> 1]>>
       /\ elimination_events = <<>>
       /\ restart_trig = FALSE
       /\ restart_sys = "none"
       /\ restart_pending = FALSE
       /\ doomed = {}
       /\ now = FrameSeconds
       /\ pc = "post"
       /\ budget = [frames |-> 0, contacts |-> 0, zones |-> MaxZoneTotal,
                    restarts |-> MaxRestarts]
       /\ frame = [start_count |-> SURVIVOR_COUNT_DEFAULT, restarted |-> FALSE,
                   collided |-> FALSE, zeroed |-> {}, emitted |-> {}, handled |-> {}]
       /\ census = Census(turrets)
       /\ instance_manager = DefaultManager
       /\ spawner = SpawnedOut

\* The systems that run in such a match.
NextShot ==
    \/ update_bullets_solver_groups
    \/ fire_shots
    \/ fire_shots_idle
    \/ cleanup_particle_emitters
    \/ handle_bullet_tile_collision
    \/ handle_bullet_turret_collision
    \/ handle_trigger_events
    \/ handle_trigger_events_off
    \/ update_charge_level
    \/ handle_elimination
    \/ handle_elimination_off
    \/ physics

SpecShot == InitShot /\ [][NextShot]_vars

\* ------------------------------------------------------ the spawn point
\* The highest level a charge can hold: that of u64::MAX, ceil(log2(2^64)) + 1.
MaxLevel == 65

\* A new match in which one turret holds one queued shot whose charge has level
\* l.  fire_shots takes the radius of a charged shot from the level the queued
\* charge holds, whatever its value.
InitSpawn ==
    \E owner \in Participant, l \in 1 .. MaxLevel, shot_type \in {"Charged", "Multi"} :
       /\ turrets = [p \in Participant |->
                       IF p = owner
                       THEN [Fresh EXCEPT !.firing_queue =
                               <<[shot_type |-> shot_type,
                                  charge |-> [DefaultCharge EXCEPT !.level = l]]>>]
                       ELSE Fresh]
       /\ bullets = <<>>
       /\ tiles = setup_tiles
       /\ survivor_count = SURVIVOR_COUNT_DEFAULT
       /\ survivors = [p \in Participant |-> TRUE]
       /\ workers = [p \in Participant |-> TRUE]
       /\ contacts = <<>>
       /\ zone_read = FALSE
       /\ trigger_events = <<>>
       /\ elimination_events = <<>>
       /\ restart_trig = FALSE
       /\ restart_sys = "none"
       /\ restart_pending = FALSE
       /\ doomed = {}
       /\ now = FrameSeconds
       /\ pc = "fixed"
       /\ budget = [frames |-> 0, contacts |-> 0, zones |-> 0, restarts |-> 0]
       /\ frame = NewFrame
       /\ census = Census(turrets)
       /\ instance_manager = DefaultManager
       /\ spawner = SpawnedOut

SpecSpawn == InitSpawn /\ [][fire_shots]_vars

\* ------------------------------------------------- the new-bullet phase
\* A plausible slip: the zone reaches from the wall to the turret only.
in_phase_range_half(translation) ==
    /\ BATTLEFIELD_HALF_WIDTH - Abs(translation.x) < BATTLEFIELD_HALF_WIDTH - TURRET_POSITION
    /\ BATTLEFIELD_HALF_WIDTH - Abs(translation.y) < BATTLEFIELD_HALF_WIDTH - TURRET_POSITION

\* BATTLEFIELD_HALF_WIDTH - |x| < NEW_BULLET_PHASE_RANGE, on both axes: the bullet
\* is in the square at a corner of the battlefield.
in_phase_range(translation) ==
    /\ BATTLEFIELD_HALF_WIDTH - Abs(translation.x) < NEW_BULLET_PHASE_RANGE
    /\ BATTLEFIELD_HALF_WIDTH - Abs(translation.y) < NEW_BULLET_PHASE_RANGE

\* Coordinates on both sides of the edge of a corner zone, and the centre.
PhaseCoordinates ==
    {-TURRET_POSITION, -(BATTLEFIELD_HALF_WIDTH - NEW_BULLET_PHASE_RANGE), 0,
     BATTLEFIELD_HALF_WIDTH - NEW_BULLET_PHASE_RANGE,
     BATTLEFIELD_HALF_WIDTH - NEW_BULLET_PHASE_RANGE + 1, TURRET_POSITION}

\* A bullet in flight as the physics step left it: where it is, whether one of
\* its contact pairs has an active contact, and whether it is still a new bullet.
BulletsInFlight(owner) ==
    {[b EXCEPT !.changed = FALSE, !.stepped = TRUE]
        @@ [translation |-> [x |-> x, y |-> y], active_contact |-> c] :
        b \in {BulletBundle(owner, spawn_position(owner, DefaultCharge), DefaultCharge),
               drop_new_bullet(BulletBundle(owner, spawn_position(owner, DefaultCharge),
                                            DefaultCharge))},
        x \in PhaseCoordinates, y \in PhaseCoordinates, c \in BOOLEAN}

\* A fixed tick of a match of four: up to MaxBullets - 1 bullets of A and B are in
\* flight and A's turret has a charged shot queued.
InitPhase ==
    \E bs \in Seqs(BulletsInFlight("A") \cup BulletsInFlight("B"), MaxBullets - 1) :
       /\ turrets = [p \in Participant |->
                       IF p = "A"
                       THEN [Fresh EXCEPT !.firing_queue =
                               <<[shot_type |-> "Charged", charge |-> DefaultCharge]>>]
                       ELSE Fresh]
       /\ bullets = bs
       /\ tiles = setup_tiles
       /\ survivor_count = SURVIVOR_COUNT_DEFAULT
       /\ survivors = [p \in Participant |-> TRUE]
       /\ workers = [p \in Participant |-> TRUE]
       /\ contacts = <<>>
       /\ zone_read = FALSE
       /\ trigger_events = <<>>
       /\ elimination_events = <<>>
       /\ restart_trig = FALSE
       /\ restart_sys = "none"
       /\ restart_pending = FALSE
       /\ doomed = {}
       /\ now = FrameSeconds
       /\ pc = "solver"
       /\ budget = [frames |-> 0, contacts |-> 0, zones |-> 0, restarts |-> 0]
       /\ frame = [start_count |-> SURVIVOR_COUNT_DEFAULT, restarted |-> FALSE,
                   collided |-> FALSE, zeroed |-> {}, emitted |-> {}, handled |-> {}]
       /\ census = Census(turrets)
       /\ instance_manager = DefaultManager
       /\ spawner = SpawnedOut

\* update_bullets_solver_groups on bullets whose place and contacts are known.
update_bullets_solver_groups_at ==
    /\ pc = "solver"
    /\ update_bullets_solver_groups_on(
          {i \in 1 .. Len(bullets) :
              /\ ~in_phase_range(bullets[i].translation)
              /\ ~bullets[i].active_contact})

NextPhase ==
    \/ update_bullets_solver_groups_at
    \/ fire_shots

SpecPhase == InitPhase /\ [][NextPhase]_vars

\* ------------------------------------------------- the effect instances
\* The EffectInstanceManager of a new world, under any sequence of its three
\* operations.  frame observes the calls: the last operation, what the last get
\* returned, and what get has returned since the last reset.
InitPool ==
    /\ turrets = setup_turrets
    /\ bullets = <<>>
    /\ tiles = setup_tiles
    /\ survivor_count = SURVIVOR_COUNT_DEFAULT
    /\ survivors = [p \in Participant |-> TRUE]
    /\ workers = [p \in Participant |-> TRUE]
    /\ contacts = <<>>
    /\ zone_read = FALSE
    /\ trigger_events = <<>>
    /\ elimination_events = <<>>
    /\ restart_trig = FALSE
    /\ restart_sys = "none"
    /\ restart_pending = FALSE
    /\ doomed = {}
    /\ now = 0
    /\ pc = "tile"
    /\ budget = [frames |-> 0, contacts |-> 0, zones |-> 0, restarts |-> 0]
    /\ frame = [op |-> "new", returned |-> <<>>, gotten |-> <<>>]
    /\ census = Census(turrets)
    /\ instance_manager = DefaultManager
    /\ spawner = SpawnedOut

\* add, with an entity just spawned.
effect_add ==
    /\ instance_manager.spawned < MaxEffects
    /\ instance_manager' = instance_manager_add(spawn_effect(instance_manager).manager,
                                                spawn_effect(instance_manager).entity)
    /\ frame' = [frame EXCEPT !.op = "add"]
    /\ UNCHANGED <<turrets, bullets, tiles, survivor_count, survivors, workers, contacts,
                   zone_read, trigger_events, elimination_events, restart_trig,
                   restart_sys, restart_pending, doomed, now, pc, budget, census, spawner>>

effect_get ==
    /\ instance_manager' = instance_manager_get(instance_manager).manager
    /\ frame' = [frame EXCEPT !.op = "get",
                              !.returned = instance_manager_get(instance_manager).entity,
                              !.gotten = @ \o instance_manager_get(instance_manager).entity]
    /\ UNCHANGED <<turrets, bullets, tiles, survivor_count, survivors, workers, contacts,
                   zone_read, trigger_events, elimination_events, restart_trig,
                   restart_sys, restart_pending, doomed, now, pc, budget, census, spawner>>

effect_reset ==
    /\ instance_manager' = instance_manager_reset(instance_manager)
    /\ frame' = [frame EXCEPT !.op = "reset", !.returned = <<>>, !.gotten = <<>>]
    /\ UNCHANGED <<turrets, bullets, tiles, survivor_count, survivors, workers, contacts,
                   zone_read, trigger_events, elimination_events, restart_trig,
                   restart_sys, restart_pending, doomed, now, pc, budget, census, spawner>>

NextPool ==
    \/ effect_add
    \/ effect_get
    \/ effect_reset

SpecPool == InitPool /\ [][NextPool]_vars

\* ------------------------------------------------------------ the panels
\* A frame of a match with 4, 2, 1 or no survivor left, the physics step having
\* reported any CollisionEvents of the panels.
InitPanel ==
    \E alive \in {Participant, {"A", "B"}, {"A"}, {}} :
       /\ turrets = [p \in Participant |-> IF p \in alive THEN Fresh ELSE NoTurret]
       /\ bullets = <<>>
       /\ tiles = setup_tiles
       /\ survivor_count = Cardinality(alive)
       /\ survivors = [p \in Participant |-> p \in alive]
       /\ workers = [p \in Participant |-> p \in alive]
       /\ contacts \in Seqs(PanelCollisions(workers), MaxPanelEvents)
       /\ zone_read = FALSE
       /\ trigger_events = <<>>
       /\ elimination_events = <<>>
       /\ restart_trig = FALSE
       /\ restart_sys = "none"
       /\ restart_pending = FALSE
       /\ doomed = {}
       /\ now = FrameSeconds
       /\ pc = "tile"
       /\ budget = [frames |-> 0, contacts |-> 0, zones |-> 0, restarts |-> 0]
       /\ frame = [start_count |-> Cardinality(alive), restarted |-> FALSE,
                   collided |-> FALSE, zeroed |-> {}, emitted |-> {}, handled |-> {}]
       /\ census = Census(turrets)
       /\ instance_manager = DefaultManager
       /\ spawner = SpawnedOut

\* trigger_event reads the CollisionEvents of the frame.
trigger_event_reads ==
    /\ pc \in UpdatePcs
    /\ ~zone_read
    /\ game_is_going
    /\ trigger_event_on(contacts)

\* Its run condition is false: it does not run in this frame.
trigger_event_skipped ==
    /\ pc \in UpdatePcs
    /\ ~zone_read
    /\ ~game_is_going
    /\ zone_read' = TRUE
    /\ UNCHANGED <<turrets, bullets, tiles, survivor_count, survivors, workers, contacts,
                   trigger_events, elimination_events, restart_trig, restart_sys,
                   restart_pending, doomed, now, pc, budget, frame, census,
                   instance_manager, spawner>>

NextPanel ==
    \/ trigger_event_reads
    \/ trigger_event_skipped

SpecPanel == InitPanel /\ [][NextPanel]_vars

\* ---------------------------------------------------------------- claims
\* The turret-contact events of this frame that reach the exchange, and the state
\* the k-th of them finds.
TurretBefore(k) ==
    TurretFold([bullets |-> bullets, turrets |-> turrets], SubSeq(contacts, 1, k - 1))

Exchanges(k) ==
    LET s == TurretBefore(k)
        e == contacts[k]
    IN  /\ e.kind = "turret"
        /\ e.bullet <= Len(s.bullets)
        /\ s.turrets[e.turret].exists
        /\ s.bullets[e.bullet].owner # e.turret

\* C1: when handle_bullet_turret_collision runs, every collision-start of a bullet
\* (value b) with a turret of another participant (value t) leaves the bullet at
\* b - min(b,t) and the turret at t - min(b,t): neither goes below 0, one of them
\* is 0, and when b < t the turret keeps a positive value; and a bullet at value 0
\* is gone once update_charge_level has run in that tick.
C1_Exchange ==
    /\ (pc = "turret" /\ survivor_count > 1) =>
          \A k \in 1 .. Len(contacts) :
             Exchanges(k) =>
                LET e  == contacts[k]
                    b  == TurretBefore(k).bullets[e.bullet].charge.value
                    t  == TurretBefore(k).turrets[e.turret].charge.value
                    b1 == TurretBefore(k + 1).bullets[e.bullet].charge.value
                    t1 == TurretBefore(k + 1).turrets[e.turret].charge.value
                IN  /\ b1 = b - Min(b, t)
                    /\ t1 = t - Min(b, t)
                    /\ b1 >= 0 /\ t1 >= 0
                    /\ b1 = 0 \/ t1 = 0
                    /\ b < t => (b1 = 0 /\ t1 > 0)
    /\ pc \in {"elim", "post"} => \A i \in 1 .. Len(bullets) : bullets[i].charge.value > 0

\* C1 witness: the handler is about to run on a contact of a bullet with a turret
\* of another participant that holds more than the bullet.
C1_Witness ==
    /\ pc = "turret" /\ survivor_count > 1
    /\ \E k \in 1 .. Len(contacts) :
          /\ Exchanges(k)
          /\ TurretBefore(k).bullets[contacts[k].bullet].charge.value > 0
          /\ TurretBefore(k).bullets[contacts[k].bullet].charge.value
                < TurretBefore(k).turrets[contacts[k].turret].charge.value

\* The state the k-th collision event of the frame finds in the tile handler.
TileBefore(k) ==
    TileFold([bullets |-> bullets, tiles |-> tiles], SubSeq(contacts', 1, k - 1))

C2_Step ==
    (pc = "tile" /\ pc' = "turret") =>
       /\ \A k \in 1 .. Len(contacts') :
             LET e  == contacts'[k]
                 s0 == TileBefore(k)
                 s1 == TileBefore(k + 1)
             IN  (e.kind = "tile" /\ s0.bullets[e.bullet].owner # s0.tiles[e.tile].owner) =>
                    IF s0.bullets[e.bullet].charge.value >= 1
                    THEN /\ s1.tiles[e.tile].owner = s0.bullets[e.bullet].owner
                         /\ \A t \in Tile \ {e.tile} : s1.tiles[t].owner = s0.tiles[t].owner
                         /\ s1.bullets[e.bullet].charge.value
                               = s0.bullets[e.bullet].charge.value - 1
                    ELSE s1 = s0
       /\ ~restart_pending =>
             /\ bullets' = TileBefore(Len(contacts') + 1).bullets
             /\ tiles' = TileBefore(Len(contacts') + 1).tiles

C2_Flips ==
    \A i \in 1 .. Len(bullets) :
       /\ bullets[i].charge.value >= 0
       /\ bullets[i].flips <= bullets[i].spawn_value
       /\ ~bullets[i].hit => bullets[i].charge.value + bullets[i].flips = bullets[i].spawn_value

\* C2: in handle_bullet_tile_collision every collision-start of a bullet of value
\* >= 1 with a tile of another owner gives the tile to the bullet's participant and
\* takes exactly 1 from the bullet, and a contact of a bullet at value 0 changes
\* nothing; so a bullet that met no turret has flipped as many tiles as it has lost
\* value, at most the value it was spawned with, and its value is never below 0.
C2_TileCapture == []C2_Flips /\ [][C2_Step]_vars

\* C2 witness: a bullet that met no turret has spent its whole value on tiles, and
\* a later contact of the same frame with a tile of another owner left that tile
\* alone.
C2_Witness ==
    /\ pc = "turret"
    /\ \E i, j \in 1 .. Len(contacts) :
          /\ i < j
          /\ contacts[i].kind = "tile" /\ contacts[j].kind = "tile"
          /\ contacts[i].bullet = contacts[j].bullet
          /\ contacts[i].bullet <= Len(bullets)
          /\ LET b == bullets[contacts[i].bullet] IN
                /\ b.charge.value = 0 /\ ~b.hit
                /\ b.spawn_value >= 1 /\ b.flips = b.spawn_value
                /\ tiles[contacts[i].tile].owner = b.owner
                /\ tiles[contacts[j].tile].owner # b.owner

\* C3: whenever the exchange of handle_bullet_turret_collision brings a turret to
\* value 0, an EliminationEvent for its participant is emitted in that tick and the
\* participant is no survivor at the end of the tick, whatever trigger events were
\* handled for it in the tick.
C3_ZeroIsTerminal ==
    (pc = "post" /\ ~frame.restarted) =>
       \A p \in frame.zeroed : p \in frame.emitted /\ ~survivors[p]

\* The participants update_charge_level reports, and the bullets it keeps.
ZeroTurrets ==
    {p \in Participant :
        turrets[p].exists /\ turrets[p].changed /\ turrets[p].charge.value = 0}

KeptBullets ==
    {i \in 1 .. Len(bullets) : ~(bullets[i].changed /\ bullets[i].charge.value = 0)}

C4_Step ==
    (pc = "level" /\ pc' = "elim") =>
       /\ frame'.emitted = ZeroTurrets
       /\ Len(elimination_events') = Len(elimination_events) + Cardinality(ZeroTurrets)
       /\ Range(elimination_events') = Range(elimination_events) \cup ZeroTurrets
       /\ ~restart_pending =>
             /\ \A p \in Participant : turrets[p].exists => turrets'[p].exists
             /\ Len(bullets') = Cardinality(KeptBullets)
             /\ \A i \in 1 .. Len(bullets') : bullets'[i].charge.value > 0

C4_Despawn ==
    \A p \in Participant :
       (turrets[p].exists /\ ~turrets'[p].exists) => (pc = "post" /\ p \in doomed)

\* C4: update_charge_level despawns the changed bullets at value 0 and sends no
\* EliminationEvent for them; for a changed turret at value 0 it sends an
\* EliminationEvent for its participant and leaves the turret in the world; a
\* participant's turret leaves the world only by the despawn handle_elimination
\* ordered (restart puts a new turret in its place).
C4_ByKind == [][C4_Step /\ C4_Despawn]_vars

\* C4 witness: update_charge_level has reported a turret at value 0, which is
\* still in the world.
C4_Witness ==
    /\ pc = "elim" /\ ~frame.restarted
    /\ \E p \in frame.emitted : turrets[p].exists /\ turrets[p].charge.value = 0

C5_Step ==
    (pc = "elim" /\ pc' = "post") =>
       /\ Cardinality(Range(elimination_events)) = Len(elimination_events)
       /\ survivor_count' = survivor_count - Len(elimination_events)
       /\ survivor_count' >= 0
       /\ \A p \in Participant :
             survivors'[p] = (survivors[p] /\ p \notin Range(elimination_events))
       /\ elimination_events' = <<>>

\* C5: an EliminationEvent is pending only between update_charge_level and
\* handle_elimination of one tick; handle_elimination takes exactly 1 from
\* SurvivorCount for each event, clears the alive flag of its participant and
\* leaves the other flags as they were.
C5_Elimination == [](pc # "elim" => elimination_events = <<>>) /\ [][C5_Step]_vars

\* C5 witness: handle_elimination has handled one event in a tick with no restart.
C5_Witness ==
    /\ pc = "post" /\ ~frame.restarted
    /\ \E p \in Participant : frame.handled = {p} /\ ~survivors[p]
    /\ survivor_count = frame.start_count - 1

\* C6: once an EliminationEvent for p is handled and the tick is over, nothing of
\* p but its tiles is left: no turret, no worker ball, no bullet in flight.
C6_NothingLeft ==
    \A p \in Participant :
       (pc = "fixed" /\ ~survivors[p]) =>
          /\ ~turrets[p].exists
          /\ ~workers[p]
          /\ \A i \in 1 .. Len(bullets) : bullets[i].owner # p

C7_Idle ==
    (frame.start_count <= 1 /\ ~frame.restarted) =>
       /\ ~frame.collided
       /\ frame.emitted = {}

C7_Step ==
    (frame.start_count <= 1 /\ ~frame.restarted /\ pc' # "fixed") =>
       /\ (pc \in {"fixed", "turret"} /\ pc' # pc) => UNCHANGED <<turrets, bullets>>
       /\ \A p \in Participant :
             (turrets[p].exists /\ turrets'[p].exists) =>
                /\ turrets'[p].last_hit_timestamp = turrets[p].last_hit_timestamp
                /\ Len(turrets'[p].firing_queue) >= Len(turrets[p].firing_queue)
       /\ Len(bullets') <= Len(bullets)
       /\ elimination_events' = elimination_events

\* C7: game_is_going is SurvivorCount > 1, and in a tick that starts with
\* SurvivorCount <= 1, until restart runs, handle_bullet_turret_collision and
\* fire_shots do not run: no turret's charge or last_hit_timestamp changes by a
\* collision, no firing queue gets shorter, no bullet is spawned and no
\* EliminationEvent is emitted.
C7_GameOver ==
    /\ [](game_is_going <=> survivor_count > 1)
    /\ []C7_Idle
    /\ [][C7_Step]_vars

\* C7 witness: the game is over and the tick has a contact of a live bullet with
\* the turret of another participant, which the handler would exchange.
C7_Witness ==
    /\ pc = "turret" /\ frame.start_count <= 1 /\ ~frame.restarted
    /\ \E k \in 1 .. Len(contacts) :
          /\ Exchanges(k)
          /\ bullets[contacts[k].bullet].charge.value > 0
          /\ turrets[contacts[k].turret].charge.value > 0

\* What a tick of fire_shots does to the queue q of a turret, q2 being the queue
\* after it: the entries before the last stay, the last one is removed or, a
\* burst, put back in its place with a smaller value.
Popped(q, q2) ==
    LET n == Len(q) IN
    /\ n > 0
    /\ SubSeq(q2, 1, n - 1) = SubSeq(q, 1, n - 1)
    /\ \/ Len(q2) = n - 1
       \/ /\ Len(q2) = n
          /\ q[n].shot_type = "Multi" /\ q2[n].shot_type = "Multi"
          /\ q2[n].charge.value >= 1
          /\ q2[n].charge.value < q[n].charge.value

C8_Step ==
    \A p \in Participant :
       LET q == turrets[p].firing_queue IN
       (q # <<>> /\ q[Len(q)].shot_type = "Multi" /\ q[Len(q)].charge.value >= 1) =>
          Popped(q, turrets'[p].firing_queue)

C8_Progress ==
    \A p \in Participant :
       (game_is_going /\ turrets[p].exists /\ turrets[p].firing_queue # <<>>) =>
          Fire(turrets[p]).queue # turrets[p].firing_queue

\* C8: while the game is going, a tick of fire_shots changes every non-empty
\* queue of a live turret, and a tick that pops a burst entry of value >= 1 either
\* removes it or puts it back with a strictly smaller value that is still >= 1:
\* the value queued bounds the ticks the entry stays, so no entry is put back
\* forever.
C8_BurstDrains == []C8_Progress /\ [][C8_Step]_vars

\* C8 witness: a burst of the highest level has been put back with less than it
\* was queued with.
C8_Witness ==
    /\ turrets["A"].firing_queue # <<>>
    /\ LET c == turrets["A"].firing_queue[1].charge IN
          /\ c.value > 2 ^ (MaxBurstLevel - 2)
          /\ c.value < 2 ^ (MaxBurstLevel - 1)

\* The shot triggers for p among the events handle_trigger_events is to handle.
ShotTriggers(p) ==
    SelectSeq(trigger_events,
              LAMBDA e : e.participant = p /\ e.trigger_type \in {"BurstShot", "ChargedShot"})

ShotTypeOf(e) == IF e.trigger_type = "BurstShot" THEN "Multi" ELSE "Charged"

C9_Push ==
    (pc = "trigger" /\ pc' = "level") =>
       \A p \in Participant :
          turrets[p].exists =>
             LET q  == turrets[p].firing_queue
                 q2 == turrets'[p].firing_queue
                 m  == Len(q2) - Len(q)
             IN  /\ m >= 0
                 /\ SubSeq(q2, m + 1, Len(q2)) = q
                 /\ (~restart_trig /\ ~restart_pending) =>
                       /\ m = Len(ShotTriggers(p))
                       /\ \A j \in 1 .. m :
                             q2[m - j + 1].shot_type = ShotTypeOf(ShotTriggers(p)[j])

C9_Pop ==
    (pc = "fixed" /\ pc' = "tile") =>
       \A p \in Participant :
          \/ turrets'[p].firing_queue = turrets[p].firing_queue
          \/ Popped(turrets[p].firing_queue, turrets'[p].firing_queue)

\* C9: handle_trigger_events puts the shots in front of the entries already
\* queued, a later trigger in front of an earlier one, and fire_shots takes the
\* entry at the back and puts the rest of a burst back at the back: the shots of
\* a turret are fired in the order their triggers were handled, every pellet of a
\* burst before any shot queued after it.
C9_Fifo == [][C9_Push /\ C9_Pop]_vars

\* C9 witness: a burst in progress is at the back of a queue, a shot queued after
\* it in front of it.
C9_Witness ==
    \E p \in Participant :
       LET q == turrets[p].firing_queue IN
       /\ Len(q) = 2
       /\ q[2].shot_type = "Multi"
       /\ q[2].charge.value = BOOSTED_TURRET_CHARGE_VALUE - 1
       /\ q[1].shot_type = "Charged"

\* The bullets a tick of fire_shots spawned for p.
SpawnedFor(p) ==
    {i \in (Len(bullets) + 1) .. Len(bullets') : bullets'[i].owner = p}

C10_Pop ==
    (pc = "fixed" /\ pc' = "tile") =>
       /\ SubSeq(bullets', 1, Len(bullets)) = bullets
       /\ \A p \in Participant :
             LET q == turrets[p].firing_queue IN
             (q # <<>> /\ turrets'[p].firing_queue # q /\ q[Len(q)].shot_type = "Charged") =>
                /\ turrets'[p].firing_queue = SubSeq(q, 1, Len(q) - 1)
                /\ Cardinality(SpawnedFor(p)) = 1
                /\ \A i \in SpawnedFor(p) : bullets'[i].charge.value = q[Len(q)].charge.value

C10_Live ==
    (pc = "trigger" /\ ~restart_trig /\ ~restart_pending) =>
       \A k \in 1 .. Len(trigger_events) :
          LET e   == trigger_events[k]
              ts0 == TriggerFold(turrets, SubSeq(trigger_events, 1, k - 1), TRUE)
              ts1 == TriggerFold(turrets, SubSeq(trigger_events, 1, k), TRUE)
          IN  (e.trigger_type = "ChargedShot" /\ turrets[e.participant].exists) =>
                 /\ Len(ts1[e.participant].firing_queue)
                       = Len(ts0[e.participant].firing_queue) + 1
                 /\ Head(ts1[e.participant].firing_queue)
                       = [shot_type |-> "Charged", charge |-> ts0[e.participant].charge]
                 /\ Tail(ts1[e.participant].firing_queue) = ts0[e.participant].firing_queue

\* C10: a ChargedShot trigger queues the value the turret holds when the trigger
\* is handled, and a tick of fire_shots that pops a Charged entry spawns exactly
\* one bullet of the turret's participant, with the value of the entry, and does
\* not put the entry back.
C10_ChargedShot == []C10_Live /\ [][C10_Pop]_vars

\* C10 witness: a charged shot of a multiplied charge has just been fired.
C10_Witness ==
    /\ pc = "tile"
    /\ \E i \in 1 .. Len(bullets) :
          /\ ~bullets[i].stepped
          /\ bullets[i].charge.value = 2 * BOOSTED_TURRET_CHARGE_VALUE

Max(a, b) == IF a > b THEN a ELSE b

C11_Step ==
    \A p \in Participant :
       LET q == turrets[p].firing_queue
           n == Len(q)
       IN  (game_is_going /\ turrets[p].exists /\ n > 0 /\ q[n].shot_type = "Multi") =>
              LET c      == q[n].charge
                  pellet == Max(1, c.level - MULTI_SHOT_CHARGE_OFFSET)
                  mine   == {i \in 1 .. Len(bullets') : bullets'[i].owner = p}
              IN  /\ Cardinality(mine) = 1
                  /\ \A i \in mine : bullets'[i].charge.value = pellet
                  /\ turrets'[p].firing_queue =
                        IF c.value - pellet > 0
                        THEN Append(SubSeq(q, 1, n - 1),
                                    [shot_type |-> "Multi",
                                     charge |-> [value |-> c.value - pellet,
                                                 level |-> calculate_level(c.value - pellet)]])
                        ELSE SubSeq(q, 1, n - 1)

\* C11: a tick of fire_shots that pops a (Multi, c) entry spawns one pellet of
\* value max(1, c.level - MULTI_SHOT_CHARGE_OFFSET); if c.value minus the pellet
\* is > 0 the entry is put back with that value and the level of that value,
\* otherwise it is dropped.
C11_MultiShot == [][C11_Step]_vars

\* C11 witness: a burst of the highest level has fired a pellet of more than 1 and
\* is back in the queue with the rest.
C11_Witness ==
    /\ Len(bullets) = 1
    /\ bullets[1].charge.value = MaxBurstLevel - MULTI_SHOT_CHARGE_OFFSET
    /\ Len(turrets["A"].firing_queue) = 1
    /\ turrets["A"].firing_queue[1].charge.value
          = 2 ^ (MaxBurstLevel - 1) - (MaxBurstLevel - MULTI_SHOT_CHARGE_OFFSET)

\* The turrets the k-th TriggerEvent of the tick finds, the participant map naming
\* the turrets in the world.
TriggerBefore(k) == TriggerFold(turrets, SubSeq(trigger_events, 1, k - 1), TRUE)

\* C12: a BurstShot or ChargedShot trigger for a living turret puts exactly one
\* entry, the shot type with a copy of the live charge, at the front of that
\* turret's queue and then resets the live charge: to the boosted value 16 when
\* now - last_hit_timestamp > TURRET_BOOST_COOLDOWN (strictly), otherwise to
\* value 1 and level 1; the other turrets are unchanged.
C12_QueueAndReset ==
    (pc = "trigger" /\ ~restart_trig /\ ~restart_pending) =>
       \A k \in 1 .. Len(trigger_events) :
          LET e   == trigger_events[k]
              p   == e.participant
              ts0 == TriggerBefore(k)
              ts1 == TriggerBefore(k + 1)
          IN  (e.trigger_type \in {"BurstShot", "ChargedShot"} /\ ts0[p].exists) =>
                 /\ ts1[p].firing_queue
                       = <<[shot_type |-> ShotTypeOf(e), charge |-> ts0[p].charge]>>
                         \o ts0[p].firing_queue
                 /\ ts1[p].charge =
                       IF now - ts0[p].last_hit_timestamp > TURRET_BOOST_COOLDOWN
                       THEN [value |-> 16, level |-> calculate_level(16)]
                       ELSE [value |-> 1, level |-> 1]
                 /\ ts1[p].exists
                 /\ ts1[p].last_hit_timestamp = ts0[p].last_hit_timestamp
                 /\ \A q \in Participant \ {p} : ts1[q] = ts0[q]

\* C12 witness: a turret hit exactly TURRET_BOOST_COOLDOWN seconds ago has queued
\* its charge and is back at value 1.
C12_Witness ==
    /\ pc = "level" /\ ~frame.restarted
    /\ \E p \in Participant :
          /\ turrets[p].exists
          /\ now - turrets[p].last_hit_timestamp = TURRET_BOOST_COOLDOWN
          /\ turrets[p].charge = [value |-> 1, level |-> 1]
          /\ Len(turrets[p].firing_queue) = 1
          /\ turrets[p].firing_queue[1].charge.value > 1

\* C13: a Multiply(factor) trigger makes the turret's live value
\* min(value * factor, u64::MAX): it saturates and never wraps (a value at MAX
\* stays at MAX), and the turret's firing queue and last_hit_timestamp, and the
\* other turrets, are left as they were.
C13_MultiplySaturates ==
    (pc = "trigger" /\ ~restart_trig /\ ~restart_pending) =>
       \A k \in 1 .. Len(trigger_events) :
          LET e   == trigger_events[k]
              p   == e.participant
              ts0 == TriggerBefore(k)
              ts1 == TriggerBefore(k + 1)
          IN  (e.trigger_type = "Multiply" /\ ts0[p].exists) =>
                 /\ ts1[p].charge.value = Min(ts0[p].charge.value * e.factor, MaxU64)
                 /\ ts1[p].charge.value >= ts0[p].charge.value
                 /\ ts1[p].charge.value <= MaxU64
                 /\ ts0[p].charge.value = MaxU64 => ts1[p].charge.value = MaxU64
                 /\ ts1[p].firing_queue = ts0[p].firing_queue
                 /\ ts1[p].last_hit_timestamp = ts0[p].last_hit_timestamp
                 /\ ts1[p].exists
                 /\ \A q \in Participant \ {p} : ts1[q] = ts0[q]

\* C13 witness: a turret that was at MAX, its level settled, has been multiplied
\* and is at MAX.
C13_Witness ==
    /\ pc = "level" /\ ~frame.restarted /\ budget.restarts = 0
    /\ \E p \in Participant :
          /\ turrets[p].exists /\ turrets[p].changed
          /\ turrets[p].charge = from_value(MaxU64)
          /\ turrets[p].firing_queue = <<>>
          /\ turrets[p].last_hit_timestamp = -TURRET_BOOST_COOLDOWN

\* C14: at the end of every Update tick, every turret and bullet in the world with
\* value >= 1 has level = calculate_level(value), whatever multiply (saturated or
\* not), reset, tile capture and exchange changed its value in the tick.
C14_LevelConsistent ==
    pc \in {"elim", "post"} =>
       /\ \A p \in Participant :
             (turrets[p].exists /\ turrets[p].charge.value >= 1) =>
                turrets[p].charge.level = calculate_level(turrets[p].charge.value)
       /\ \A i \in 1 .. Len(bullets) :
             bullets[i].charge.value >= 1 =>
                bullets[i].charge.level = calculate_level(bullets[i].charge.value)

\* C14 witness: in the first tick a turret was multiplied from 16 to MAX, and
\* update_charge_level has run.
C14_Witness ==
    /\ pc = "elim" /\ budget.frames = 1
    /\ \E p \in Participant :
          /\ turrets[p].exists
          /\ turrets[p].charge.value = MaxU64
          /\ turrets[p].charge.level = calculate_level(MaxU64)

\* C15: the level of a charge is never read stale: the entry fire_shots is to pop
\* from a firing queue has level = calculate_level(value), also when a Multiply
\* trigger or a bullet hit changed the turret's value in the tick of the shot
\* trigger that queued it, before that trigger.
C15_NeverStale ==
    (pc = "fixed" /\ game_is_going) =>
       \A p \in Participant :
          LET q == turrets[p].firing_queue IN
          (turrets[p].exists /\ q # <<>> /\ q[Len(q)].charge.value >= 1) =>
             q[Len(q)].charge.level = calculate_level(q[Len(q)].charge.value)

\* ceil(log2(v)) in exact arithmetic.
ExactCeilLog2(v) == CeilLog2(v)

\* C16: calculate_level(value) = ceil(log2(value)) + 1 for every value >= 1:
\* level(1) = 1, the level is always >= 1, and value1 < value2 implies
\* level(value1) <= level(value2).
C16_LevelFormula ==
    pc = "elim" =>
       /\ \A p \in {"A", "B"} :
             LET c == turrets[p].charge IN
             /\ c.level = ExactCeilLog2(c.value) + 1
             /\ c.level >= 1
             /\ c.value = 1 => c.level = 1
       /\ turrets["A"].charge.value < turrets["B"].charge.value =>
             turrets["A"].charge.level <= turrets["B"].charge.level

\* What restart builds: the state of a new match.
RestartResult ==
    /\ survivor_count = 4
    /\ \A p \in Participant : survivors[p]
    /\ bullets = <<>>
    /\ \A t \in Tile : tiles[t].owner = Quadrant(t)
    /\ \A p \in Participant :
          /\ turrets[p].exists
          /\ turrets[p].charge = [value |-> 16, level |-> 5]
          /\ turrets[p].firing_queue = <<>>
          /\ turrets[p].last_hit_timestamp = -TURRET_BOOST_COOLDOWN

C17_Step == (pc = "post" /\ frame.restarted /\ pc' = "solver") => RestartResult'

\* C17: once a RestartEvent is processed, i.e. at the end of the tick in which
\* restart ran, SurvivorCount is 4, the four alive flags are true, no bullet
\* exists, every tile is owned by the participant of its quadrant, and each
\* participant has one turret with the default charge (value 16), an empty
\* firing queue and last_hit_timestamp = -TURRET_BOOST_COOLDOWN.
C17_RestartResult == [][C17_Step]_vars

C18_Again ==
    budget.restarts >= 1 =>
       UNCHANGED <<tiles, turrets, bullets, census, survivor_count, survivors>>

C18_NoDuplicate ==
    budget.restarts >= 1 =>
       /\ \A p \in Participant : census.turret[p] = 1 /\ turrets[p] = NewTurret
       /\ \A t \in Tile : census.tile[t] = 1 /\ tiles[t].owner = Quadrant(t)
       /\ survivor_count = 4 /\ \A p \in Participant : survivors[p]

\* C18: restart run again right after restart, with no tick and no event in
\* between, leaves the tile grid, the turrets (one per participant, default
\* charge, empty queue), SurvivorCount and the alive flags as the first run left
\* them, and no tile or turret is there twice.
C18_Idempotent == []C18_NoDuplicate /\ [][C18_Again]_vars

\* C18 witness: restart has run twice in a row on a finished match.
C18_Witness ==
    /\ budget.restarts = 2
    /\ \A p \in Participant : census.turret[p] = 1

C19_Discard ==
    (pc = "trigger" /\ restart_trig /\ pc' = "level") =>
       /\ turrets' = turrets
       /\ trigger_events' = <<>>
       /\ ~restart_trig'

C19_NoneLeft ==
    (restart_sys \in {"new", "old"} /\ ~restart_trig) => trigger_events = <<>>

\* C19: in a tick in which handle_trigger_events sees a pending RestartEvent, all
\* pending TriggerEvents are discarded: no charge and no firing queue is changed
\* by a trigger in that tick; and while restart has still to run on a
\* RestartEvent that handle_trigger_events has seen, no TriggerEvent is pending,
\* so no trigger emitted before a restart reaches the turrets restart creates.
C19_StaleTriggers == []C19_NoneLeft /\ [][C19_Discard]_vars

\* C19 witness: handle_trigger_events is to run with a pending RestartEvent and a
\* pending TriggerEvent for a turret that is in the world.
C19_Witness ==
    /\ pc = "trigger" /\ restart_trig /\ ~restart_pending
    /\ \E k \in 1 .. Len(trigger_events) : turrets[trigger_events[k].participant].exists

\* The TriggerEvents whose participant has a turret in the world.
Living(events) == SelectSeq(events, LAMBDA e : turrets[e.participant].exists)

C20_Step ==
    (pc = "trigger" /\ pc' = "level") =>
       /\ trigger_events' = <<>>
       /\ survivor_count' = survivor_count
       /\ survivors' = survivors
       /\ \A p \in Participant : ~turrets[p].exists => turrets'[p] = turrets[p]
       /\ (~restart_trig /\ ~restart_pending) =>
             turrets' = TriggerFold(turrets, Living(trigger_events), TRUE)

\* C20: a TriggerEvent whose participant has no turret in the world is dropped by
\* handle_trigger_events and not kept for later: the turrets end as if the event
\* had not been sent, no turret appears for the participant, and SurvivorCount
\* and the alive flags are unchanged.
C20_DeadTrigger == [][C20_Step]_vars

\* C20 witness: handle_trigger_events is to read a TriggerEvent of a participant
\* that was eliminated and whose turret is despawned.
C20_Witness ==
    /\ pc = "trigger" /\ ~restart_trig /\ ~restart_pending
    /\ \E k \in 1 .. Len(trigger_events) :
          /\ ~turrets[trigger_events[k].participant].exists
          /\ ~survivors[trigger_events[k].participant]

C21_Queue ==
    (pc = "trigger" /\ pc' = "level" /\ trigger_events # <<>>) =>
       /\ turrets["A"].charge = [value |-> 8, level |-> 4]
       /\ turrets'["A"].firing_queue =
             <<[shot_type |-> "Charged", charge |-> [value |-> 8, level |-> 4]]>>

\* A frame may have no fixed tick: the step of one that has changes the queue.
C21_Spawn ==
    (pc = "fixed" /\ pc' = "tile" /\ turrets' # turrets) =>
       /\ turrets["A"].firing_queue # <<>>
       /\ Len(bullets') = Len(bullets) + 1
       /\ bullets'[Len(bullets')].owner = "A"
       /\ bullets'[Len(bullets')].charge.value = 8
       /\ turrets'["A"].firing_queue = <<>>

C21_Capture ==
    (pc = "tile" /\ pc' = "turret" /\ contacts' # <<>> /\ contacts'[1].kind = "tile") =>
       LET e == contacts'[1] IN
       (bullets[e.bullet].charge.value = 8 /\ tiles[e.tile].owner = "B") =>
          /\ TileBefore(2).tiles[e.tile].owner = "A"
          /\ TileBefore(2).bullets[e.bullet].charge.value = 7
          /\ tiles'[e.tile].owner = "A"

C21_Quiet ==
    /\ \A i \in 1 .. Len(bullets) :
          (~bullets[i].hit /\ bullets[i].flips = 1) =>
             bullets[i].charge.value = 7 /\ bullets[i].owner = "A"
    /\ frame.zeroed = {} =>
          /\ frame.emitted = {}
          /\ elimination_events = <<>>
          /\ survivor_count = frame.start_count

\* C21: with 4 survivors, a ChargedShot trigger for turret A at value 8, level 4
\* queues that charge, the next fixed tick spawns one bullet of value 8 owned by
\* A, and when that bullet hits a tile owned by B the tile becomes A's and the
\* bullet's value 7; no EliminationEvent is emitted and SurvivorCount stays 4.
C21_EndToEnd == []C21_Quiet /\ [][C21_Queue /\ C21_Spawn /\ C21_Capture]_vars

\* C21 witness: A's bullet of value 8 has captured B's tile and holds 7, with
\* four survivors.
C21_Witness ==
    /\ pc = "turret" /\ survivor_count = 4
    /\ Len(contacts) = 1 /\ contacts[1].kind = "tile"
    /\ tiles[contacts[1].tile].owner = "A" /\ Quadrant(contacts[1].tile) = "B"
    /\ Len(bullets) = 1
    /\ bullets[1].owner = "A" /\ bullets[1].spawn_value = 8
    /\ bullets[1].charge.value = 7

C22_Step ==
    (survivor_count <= 1 /\ ~frame.restarted /\ ~restart_pending
       /\ survivor_count' <= 1 /\ ~frame'.restarted) =>
       /\ tiles' = tiles
       /\ \A p \in Participant :
             (turrets[p].exists /\ turrets'[p].exists) =>
                /\ turrets'[p].charge = turrets[p].charge
                /\ turrets'[p].firing_queue = turrets[p].firing_queue

\* C22: once SurvivorCount <= 1, and until restart runs, no tile's owner changes
\* and no turret's live charge or firing queue changes.
C22_Frozen == [][C22_Step]_vars

\* A collision start of a worker ball and a trigger zone, in either order.
BallInZone(ev) ==
    /\ ev.started
    /\ \/ ev.a.kind = "ball" /\ ev.b.kind = "zone"
       \/ ev.a.kind = "zone" /\ ev.b.kind = "ball"

\* The event such a start is to send.
ZoneTrigger(ev) ==
    IF ev.a.kind = "ball"
    THEN [participant |-> ev.a.participant, trigger_type |-> ev.b.trigger_type,
          factor |-> ev.b.factor]
    ELSE [participant |-> ev.b.participant, trigger_type |-> ev.a.trigger_type,
          factor |-> ev.a.factor]

\* The ball-and-zone starts among the CollisionEvents of the frame, in order.
ZoneStarts == SelectSeq(contacts, BallInZone)

\* C23: when trigger_event has read the frame's CollisionEvents while the game is
\* going, the TriggerEvents sent are exactly one per collision start of a worker
\* ball and a trigger zone, in order, with the ball's participant and the zone's
\* trigger type; stops and other pairs send none; when the game is not going no
\* TriggerEvent is sent.
C23_Translation ==
    zone_read =>
       IF game_is_going
       THEN /\ Len(trigger_events) = Len(ZoneStarts)
            /\ \A i \in 1 .. Len(ZoneStarts) : trigger_events[i] = ZoneTrigger(ZoneStarts[i])
       ELSE trigger_events = <<>>

\* C23 witness: the game is going and the frame held a stop of A's ball in a zone
\* and a start reported with the zone first; one TriggerEvent was sent.
C23_Witness ==
    /\ zone_read
    /\ game_is_going
    /\ contacts = <<Stopped(WorkerBall("A"), TriggerZone("BurstShot", 1)),
                    Started(TriggerZone("Multiply", 2), WorkerBall("B"))>>
    /\ trigger_events = <<[participant |-> "B", trigger_type |-> "Multiply", factor |-> 2]>>

\* floor(log2(v)) + 1 in exact arithmetic: the number of bits of v.
FloorLog2Plus1(v) == BitLen(v)

C25_TileStep ==
    (pc = "tile" /\ pc' = "turret" /\ ~restart_pending) =>
       \A k1, k2 \in 1 .. Len(contacts') :
          LET e1 == contacts'[k1]
              e2 == contacts'[k2]
          IN  (/\ e1.kind = "tile" /\ e2.kind = "turret"
               /\ e1.bullet = e2.bullet
               /\ TileBefore(k1).bullets[e1.bullet].charge.value = 1
               /\ TileBefore(k1).tiles[e1.tile].owner # bullets[e1.bullet].owner) =>
                 /\ TileBefore(k1 + 1).tiles[e1.tile].owner = bullets[e1.bullet].owner
                 /\ bullets'[e1.bullet].charge.value = 0
                 /\ bullets'[e1.bullet].flips = bullets[e1.bullet].flips + 1

\* The turret handler, after it: the exchange with a bullet the tile handler left
\* at 0 takes nothing from the turret.
C25_TurretStep ==
    (pc = "turret" /\ pc' = "trigger" /\ game_is_going) =>
       \A k \in 1 .. Len(contacts) :
          (Exchanges(k) /\ bullets[contacts[k].bullet].charge.value = 0) =>
             LET t == contacts[k].turret IN
             /\ TurretBefore(k).bullets[contacts[k].bullet].charge.value = 0
             /\ TurretBefore(k + 1).turrets[t].charge.value
                   = TurretBefore(k).turrets[t].charge.value
             /\ (\A j \in 1 .. Len(contacts) :
                    (j # k /\ contacts[j].kind = "turret") => contacts[j].turret # t)
                   => turrets'[t].charge.value = turrets[t].charge.value

\* C25: the tile handler runs before the turret handler on the events of a tick:
\* a bullet of value 1 touching an enemy tile and an enemy turret in the same tick
\* captures the tile, is at 0 when the exchange is evaluated, and the turret's
\* value is not reduced.
C25_TileFirst == [][C25_TileStep /\ C25_TurretStep]_vars

\* C25 witness: both handlers have run on a pellet spawned with value 1 that
\* captured a tile and touched a turret of another participant in this tick; the
\* pellet is at 0 and the turret still holds the boosted charge.
C25_Witness ==
    /\ pc = "trigger"
    /\ \E i \in 1 .. Len(bullets) : \E p \in Participant :
          /\ bullets[i].spawn_value = 1 /\ bullets[i].flips = 1
          /\ bullets[i].hit /\ bullets[i].charge.value = 0
          /\ p # bullets[i].owner
          /\ turrets[p].exists
          /\ turrets[p].last_hit_timestamp = now
          /\ turrets[p].charge.value = BOOSTED_TURRET_CHARGE_VALUE
          /\ \E t \in Tile : tiles[t].owner = bullets[i].owner /\ Quadrant(t) # bullets[i].owner

\* The collision starts of the frame between the turret of p and a bullet of
\* another participant, and those with a bullet of p.
EnemyContacts(p) ==
    {k \in 1 .. Len(contacts) :
        /\ contacts[k].kind = "turret" /\ contacts[k].turret = p
        /\ contacts[k].bullet <= Len(bullets)
        /\ bullets[contacts[k].bullet].owner # p}

OwnContacts(p) ==
    {k \in 1 .. Len(contacts) :
        /\ contacts[k].kind = "turret" /\ contacts[k].turret = p
        /\ contacts[k].bullet <= Len(bullets)
        /\ bullets[contacts[k].bullet].owner = p}

C26_Step ==
    (pc = "turret" /\ pc' = "trigger" /\ game_is_going) =>
       \A p \in Participant :
          turrets[p].exists =>
             /\ EnemyContacts(p) # {} => turrets'[p].last_hit_timestamp = now
             /\ \A k \in EnemyContacts(p) :
                   TurretBefore(k + 1).turrets[p].last_hit_timestamp = now
             /\ \A k \in OwnContacts(p) : TurretBefore(k + 1) = TurretBefore(k)
             /\ (EnemyContacts(p) = {} /\ OwnContacts(p) # {}) =>
                   /\ turrets'[p].charge = turrets[p].charge
                   /\ turrets'[p].last_hit_timestamp = turrets[p].last_hit_timestamp

\* C26: while the game is going, every collision start between a turret and a
\* bullet of another participant sets the turret's last_hit_timestamp to now, also
\* when the amount exchanged is 0; a collision with a bullet of the turret's own
\* participant changes neither charge nor timestamp.
C26_Timestamp == [][C26_Step]_vars

\* C26 witness: the handler has run on a contact of a turret with a spent bullet
\* of another participant: nothing was taken, and the turret was hit now.
C26_Witness ==
    /\ pc = "trigger" /\ frame.collided /\ game_is_going
    /\ \E p \in Participant : \E i \in 1 .. Len(bullets) :
          /\ turrets[p].exists
          /\ turrets[p].last_hit_timestamp = now
          /\ turrets[p].charge.value = BOOSTED_TURRET_CHARGE_VALUE
          /\ bullets[i].owner # p
          /\ bullets[i].hit
          /\ bullets[i].charge.value = 0
          /\ bullets[i].flips > 0

\* C27: in every state each tile's colour and its collision groups are those of
\* its owner: the colour is the owner's tile colour, the membership tile(owner),
\* the filter all bullets and new bullets except the owner's; so the engine
\* reports no contact of a tile with a bullet of its owner.
C27_TileLook ==
    /\ \A t \in Tile :
          LET owner == tiles[t].owner IN
          /\ tiles[t].color = tile_colors[owner]
          /\ tiles[t].collision_groups.memberships = {<<"TILE", owner>>}
          /\ tiles[t].collision_groups.filters =
                {<<k, p>> : k \in {"BULLET", "NEW_BULLET"}, p \in Participant \ {owner}}
    /\ \A t \in Tile : \A i \in 1 .. Len(bullets) :
          bullets[i].owner = tiles[t].owner =>
             ~Interacts(bullets[i].collision_groups, tiles[t].collision_groups)
    /\ \A c \in PossibleContacts(bullets, turrets, tiles) :
          c.kind = "tile" => tiles[c.tile].owner # bullets[c.bullet].owner

\* C27 witness: a tile of B's quadrant was captured by A and looks like a tile
\* of A, and a bullet of A that the engine has stepped is in flight.
C27_Witness ==
    \E t \in Tile :
       /\ Quadrant(t) = "B"
       /\ tiles[t] = TileBundle("A")
       /\ \E i \in 1 .. Len(bullets) :
             bullets[i].owner = "A" /\ bullets[i].stepped /\ bullets[i].flips > 0

\* The bullets that carry the marker NewBullet.
Tagged(bs) == {i \in 1 .. Len(bs) : bs[i].NewBullet}

\* A new bullet is in the group new_bullet(owner), which neither the turret nor
\* the tiles of its participant filter in; another bullet is in bullet(owner).
C28_SubLayer ==
    \A i \in 1 .. Len(bullets) :
       LET b == bullets[i] IN
       IF b.NewBullet
       THEN /\ b.collision_groups.memberships = {<<"NEW_BULLET", b.owner>>}
            /\ ~Interacts(b.collision_groups, turret_collision_groups(b.owner))
            /\ \A t \in Tile :
                  tiles[t].owner = b.owner =>
                     ~Interacts(b.collision_groups, tiles[t].collision_groups)
       ELSE b.collision_groups.memberships = {<<"BULLET", b.owner>>}

\* fire_shots spawns every projectile as a new bullet.
C28_Spawn ==
    (pc = "fixed" /\ pc' = "tile") =>
       \A i \in (Len(bullets) + 1) .. Len(bullets') :
          /\ bullets'[i].NewBullet
          /\ bullets'[i].collision_groups.memberships = {<<"NEW_BULLET", bullets'[i].owner>>}

\* update_bullets_solver_groups takes the marker only from a bullet that is
\* outside the four corner squares and has no active contact.
C28_Drop ==
    (pc = "solver" /\ pc' = "fixed") =>
       /\ Len(bullets') = Len(bullets)
       /\ \A i \in 1 .. Len(bullets) :
             (bullets[i].NewBullet /\ ~bullets'[i].NewBullet) =>
                /\ ~(/\ Abs(bullets[i].translation.x) > 300
                     /\ Abs(bullets[i].translation.y) > 300)
                /\ ~bullets[i].active_contact
                /\ bullets'[i].collision_groups.memberships = {<<"BULLET", bullets[i].owner>>}

\* No step gives the marker to a bullet that is in the world already.
C28_NoRetag ==
    \A i \in 1 .. Len(bullets) :
       (i <= Len(bullets') /\ ~bullets[i].NewBullet) => ~bullets'[i].NewBullet

\* C28: every projectile is spawned with the marker NewBullet in the group
\* new_bullet(owner), which its participant's turret and tiles do not filter in;
\* update_bullets_solver_groups removes the marker and moves the bullet to
\* bullet(owner) only in a tick where it is outside every corner zone of width
\* NEW_BULLET_PHASE_RANGE and has no active contact; a bullet that lost the marker
\* never gets it back.
C28_NewBulletLayer ==
    []C28_SubLayer /\ [][C28_Spawn /\ C28_Drop /\ C28_NoRetag]_vars

\* C28 witness: after a fixed tick, a bullet at the edge of a corner zone with no
\* active contact has lost the marker and is in the group of A's bullets, and the
\* projectile fire_shots spawned is a new bullet.
C28_Witness ==
    /\ pc = "tile"
    /\ Len(bullets) = 2
    /\ ~bullets[1].NewBullet
    /\ bullets[1].translation = [x |-> 300, y |-> 330] /\ ~bullets[1].active_contact
    /\ bullets[1].collision_groups.memberships = bullet("A")
    /\ bullets[2].NewBullet /\ bullets[2].owner = "A"

\* How often x occurs in the sequence q.
Occurrences(x, q) == Cardinality({i \in 1 .. Len(q) : q[i] = x})

\* Every entity added is in exactly one of the lists, once; get has not returned
\* an entity twice since the last reset.
C29_Once ==
    /\ \A e \in 1 .. instance_manager.spawned :
          Occurrences(e, instance_manager.pool)
             + Occurrences(e, instance_manager.dispatched) = 1
    /\ Len(instance_manager.pool) + Len(instance_manager.dispatched)
          = instance_manager.spawned
    /\ \A e \in 1 .. instance_manager.spawned : Occurrences(e, frame.gotten) <= 1

\* get moves one entity from pool to dispatched and returns it, or returns None
\* and changes nothing when pool is empty.
C29_Get ==
    frame'.op = "get" =>
       IF instance_manager.pool = <<>>
       THEN frame'.returned = <<>> /\ instance_manager' = instance_manager
       ELSE \E e \in 1 .. instance_manager.spawned :
               /\ frame'.returned = <<e>>
               /\ Occurrences(e, instance_manager.pool) = 1
               /\ Occurrences(e, instance_manager'.pool) = 0
               /\ Len(instance_manager'.pool) = Len(instance_manager.pool) - 1
               /\ instance_manager'.dispatched = Append(instance_manager.dispatched, e)

\* reset moves every dispatched entity back to pool.
C29_Reset ==
    frame'.op = "reset" =>
       /\ instance_manager'.dispatched = <<>>
       /\ \A e \in 1 .. instance_manager.spawned :
             Occurrences(e, instance_manager'.pool) = 1

\* C29: after any sequence of add, get and reset every effect entity ever added
\* is in exactly one of the lists pool and dispatched and appears there once; get
\* moves one entity from pool to dispatched and returns it, or returns None and
\* changes nothing when pool is empty; between two resets get never returns the
\* same entity twice; reset moves every dispatched entity back to pool.
C29_Pool == []C29_Once /\ [][C29_Get /\ C29_Reset]_vars

\* C29 witness: after a reset, get has handed out two of three pooled entities.
C29_Witness ==
    /\ frame.op = "get"
    /\ Len(frame.gotten) = 2
    /\ Len(instance_manager.pool) = 1
    /\ Len(instance_manager.dispatched) = 2
    /\ instance_manager.dispatched = frame.gotten
\* C30: a projectile of level l, of radius r = l * BULLET_SIZE_FACTOR, is spawned
\* by a turret at (+-330, +-330) at |x| = |y| = min(330, 360 - r), in the
\* turret's own corner, so that |x| + r and |y| + r are at most
\* BATTLEFIELD_HALF_WIDTH: the ball does not reach over the wall, for every
\* level from 1 to MaxLevel.
C30_SpawnInside ==
    \A i \in 1 .. Len(bullets) :
       LET b == bullets[i]
           r == b.charge.level * BULLET_SIZE_FACTOR
           corner == turret_translation[b.owner]
       IN  ~b.stepped =>
             /\ Abs(b.position.x) = Min(TURRET_POSITION, BATTLEFIELD_HALF_WIDTH - r)
             /\ Abs(b.position.y) = Min(TURRET_POSITION, BATTLEFIELD_HALF_WIDTH - r)
             /\ Abs(b.position.x) + r <= BATTLEFIELD_HALF_WIDTH
             /\ Abs(b.position.y) + r <= BATTLEFIELD_HALF_WIDTH
             /\ b.position.x * corner.x > 0
             /\ b.position.y * corner.y > 0

\* D's turret has fired a charged shot of the highest level: the ball of radius
\* 130 is spawned 100 inside the turret, touching the wall.
C30_Witness ==
    \E i \in 1 .. Len(bullets) :
       /\ bullets[i].owner = "D"
       /\ bullets[i].charge.level = MaxLevel
       /\ bullets[i].position = Vec2(-230, -230)
       /\ turrets["D"].firing_queue = <<>>

\* C31: SurvivorCount equals the number of participants flagged alive, stays
\* within 0..4, and equals the number of existing turrets when the tick has
\* ended; handle_elimination never decrements it below 0 and never handles a
\* participant that is already flagged out (none is eliminated twice between
\* two restarts), also when several turrets reach 0 in one tick or a restart
\* is processed in the tick of a collision.
AliveCount == Cardinality({p \in Participant : survivors[p]})

TurretCount == Cardinality({p \in Participant : turrets[p].exists})

C31_Count ==
    /\ survivor_count = AliveCount
    /\ survivor_count \in 0 .. SURVIVOR_COUNT_DEFAULT
    /\ pc = "solver" => survivor_count = TurretCount

C31_Step ==
    (pc = "elim" /\ pc' = "post" /\ elimination_events # <<>>) =>
       /\ \A p \in Range(elimination_events) : survivors[p]
       /\ \A i, j \in 1 .. Len(elimination_events) :
             elimination_events[i] = elimination_events[j] => i = j
       /\ survivor_count >= Len(elimination_events)
       /\ survivor_count' = survivor_count - Len(elimination_events)

C31_SurvivorCount == []C31_Count /\ [][C31_Step]_vars

\* Bullets have brought two turrets to 0 in one tick and both eliminations have
\* been handled: the count went down by two and agrees with the flags.
C31_Witness ==
    /\ pc = "post"
    /\ frame.collided
    /\ Cardinality(frame.zeroed) = 2
    /\ frame.handled = frame.zeroed
    /\ survivor_count = frame.start_count - 2
    /\ survivor_count = AliveCount

\* C32: burst conservation.  A pellet fire_shots pops from a Multi entry never
\* has a value larger than the value that entry holds; so the pellets of an
\* entry add up to the value the turret had when the BurstShot was handled,
\* also when the turret was multiplied or hit in the tick the burst was queued.
C32_Step ==
    (pc = "fixed" /\ pc' = "tile" /\ bullets' # bullets) =>
       \A p \in Participant :
          LET q == turrets[p].firing_queue IN
          (turrets[p].exists /\ q # <<>> /\ q[Len(q)].shot_type = "Multi") =>
             /\ Fire(turrets[p]).shots # <<>>
             /\ Fire(turrets[p]).shots[1].value <= q[Len(q)].charge.value

C32_BurstConserved == [][C32_Step]_vars

\* C33: the match ends with exactly one survivor: SurvivorCount never reaches
\* 0, also when the last two turrets are brought to 0 in the same tick.
C33_OneSurvivor == survivor_count > 0

\* C34: spawn_workers never reaches a fatal state: whenever it runs, also when
\* exactly one of the two participants of a panel has been eliminated, it
\* returns without panicking.
C34_NoPanic == ~spawner.panicked

\* C35: while the game is going and the turret is in the world, every entry
\* on its firing queue is eventually popped and fired: a queue that holds
\* entries is eventually empty (entries are pushed at the front and popped at
\* the back, so an entry behind a burst fires once the burst has drained).
C35_QueueDrains ==
    (turrets["A"].firing_queue # <<>>) ~> (turrets["A"].firing_queue = <<>>)

\* Two shots were queued behind the entries the turret held, and all have been
\* fired: the last tick popped the last entry.
C35_Witness ==
    /\ budget.zones = MaxZoneTotal
    /\ turrets["A"].firing_queue = <<>>
    /\ bullets # <<>>
    /\ bullets[1].owner = "A"
    /\ game_is_going

\* C36: in a fixed tick fire_shots spawns at most one projectile per turret.  A
\* turret that spawns none keeps its queue (an empty queue stays empty); one that
\* spawns a projectile had an entry at the back of its queue: a Charged entry
\* is removed, the queue is shorter by 1; a Multi entry is removed or replaced
\* by its rest, the queue is shorter by 1 or as long as before.  The entries in
\* front of the popped one stay as they are.
C36_Step ==
    (pc = "fixed" /\ pc' = "tile") =>
       /\ SubSeq(bullets', 1, Len(bullets)) = bullets
       /\ \A i \in (Len(bullets) + 1) .. Len(bullets') : bullets'[i].owner \in Participant
       /\ \A p \in Participant :
             LET q  == turrets[p].firing_queue
                 q2 == turrets'[p].firing_queue
                 n  == Cardinality(SpawnedFor(p))
             IN  /\ n <= 1
                 /\ n = 0 => q2 = q
                 /\ q = <<>> => (n = 0 /\ q2 = <<>>)
                 /\ n = 1 =>
                      /\ q # <<>>
                      /\ SubSeq(q2, 1, Len(q) - 1) = SubSeq(q, 1, Len(q) - 1)
                      /\ q[Len(q)].shot_type = "Charged" => Len(q2) = Len(q) - 1
                      /\ q[Len(q)].shot_type = "Multi" =>
                            /\ Len(q2) \in {Len(q) - 1, Len(q)}
                            /\ Len(q2) = Len(q) => q2[Len(q)].shot_type = "Multi"

C36_OnePerTick == [][C36_Step]_vars

\* A turret has just fired a pellet of a burst whose rest is back on its queue,
\* behind a shot queued later.
C36_Witness ==
    /\ pc = "tile"
    /\ \E i \in 1 .. Len(bullets) :
          LET q == turrets[bullets[i].owner].firing_queue IN
          /\ ~bullets[i].stepped
          /\ bullets[i].spawn_value = 1
          /\ Len(q) = 2
          /\ q[2].shot_type = "Multi"
          /\ q[2].charge.value = BOOSTED_TURRET_CHARGE_VALUE - 1

\* C37: no projectile is spawned for a participant between the handling of its
\* elimination and the next restart, that is while its alive flag is cleared:
\* every projectile fire_shots spawns belongs to a participant flagged alive.
C37_Step ==
    (pc = "fixed" /\ pc' = "tile") =>
       \A i \in (Len(bullets) + 1) .. Len(bullets') : survivors[bullets'[i].owner]

\* C37: the shots pending in the queue of an eliminated turret are discarded
\* with it: when the fixed step runs, a participant whose alive flag is cleared
\* has no turret and no queued shot.
C37_Discarded ==
    pc = "fixed" =>
       \A p \in Participant :
          ~survivors[p] => (~turrets[p].exists /\ turrets[p].firing_queue = <<>>)

C37_NoShotAfterElimination == []C37_Discarded /\ [][C37_Step]_vars

\* A turret fires in a match that goes on after an elimination: the projectile
\* of a surviving participant has just been spawned, another participant has
\* its alive flag cleared and no turret.
C37_Witness ==
    /\ pc = "tile"
    /\ game_is_going
    /\ budget.frames > 0
    /\ \E i \in 1 .. Len(bullets) : ~bullets[i].stepped /\ survivors[bullets[i].owner]
    /\ \E p \in Participant : ~survivors[p] /\ ~turrets[p].exists

\* C38: after a restart that follows a game over, each of the four participants
\* has worker balls in its panel, or can still get them: spawn_workers has
\* rounds left to serve.  (The counter of rounds never goes down, so a
\* participant with no ball when no round is left never has one again.)
C38_WorkersAgain ==
    (/\ pc = "solver"
     /\ budget.restarts > 0
     /\ survivor_count = SURVIVOR_COUNT_DEFAULT
     /\ \A p \in Participant : turrets[p].exists /\ survivors[p])
    => \A p \in Participant : workers[p] \/ spawn_workers_condition

\* C39: a RestartEvent is sent only while the game is not going, that is with
\* SurvivorCount <= 1.
C39_Emit ==
    (budget.restarts' # budget.restarts \/ (restart_trig' /\ ~restart_trig)) =>
       /\ survivor_count <= 1
       /\ ~game_is_going
       /\ restart_trig'

\* C39: a running match is never reset: when restart runs, at most one
\* participant survives.
C39_Reset ==
    (restart_sys' = "done" /\ restart_sys # "done") => survivor_count <= 1

C39_RestartOnlyWhenOver == [][C39_Emit /\ C39_Reset]_vars

\* restart has run on a RestartEvent sent in the frame before: the match is
\* set up again.
C39_Witness ==
    /\ frame.restarted
    /\ frame.start_count <= 1
    /\ survivor_count = SURVIVOR_COUNT_DEFAULT
    /\ budget.restarts > 0
    /\ restart_sys = "done"

\* The bullets a step keeps, in order: update_charge_level despawns the spent ones.
BulletsAfterStep ==
    IF pc = "level" /\ pc' = "elim"
    THEN SelectSeq(bullets, LAMBDA b : ~Despawned(b))
    ELSE bullets

\* The events of the tile handler's loop in which bullet i captures a tile.
CapturesBy(i, events) ==
    {k \in 1 .. Len(events) :
        LET s0 == TileFold([bullets |-> bullets, tiles |-> tiles],
                           SubSeq(events, 1, k - 1))
            e  == events[k]
        IN  /\ e.kind = "tile"
            /\ e.bullet = i
            /\ TileHit(s0, e).tiles[e.tile].owner # s0.tiles[e.tile].owner}

\* The events of the turret handler's loop in which bullet i and the turret of
\* an enemy p take something from each other.
ExchangesOf(i, p, events) ==
    {k \in 1 .. Len(events) :
        LET s0 == TurretFold([bullets |-> bullets, turrets |-> turrets],
                             SubSeq(events, 1, k - 1))
            e  == events[k]
        IN  /\ e.kind = "turret"
            /\ e.bullet = i
            /\ e.turret = p
            /\ bullets[i].owner # p
            /\ TurretHit(s0, e).turrets[p].charge.value < s0.turrets[p].charge.value}

\* C40, bullets: a bullet keeps its owner and its value never goes up; it goes
\* down by 1 per tile it captures in the tile handler, and in the turret handler
\* by what it exchanges with enemy turrets, which lose as much as the bullets.
C40_Bullet ==
    /\ Len(bullets') < Len(BulletsAfterStep) => (bullets' = <<>> /\ restart_pending)
    /\ Len(bullets') >= Len(BulletsAfterStep) =>
          \A i \in 1 .. Len(BulletsAfterStep) :
             LET b  == BulletsAfterStep[i]
                 b2 == bullets'[i]
             IN  /\ b2.owner = b.owner
                 /\ b2.charge.value <= b.charge.value
                 /\ (pc = "tile" /\ pc' = "turret") =>
                       b.charge.value - b2.charge.value
                          = Cardinality(CapturesBy(i, contacts'))
                 /\ (pc = "turret" /\ pc' = "trigger") =>
                       (b2.charge.value < b.charge.value =>
                           \E p \in Participant : ExchangesOf(i, p, contacts) # {})
                 /\ ~(pc = "tile" /\ pc' = "turret") /\ ~(pc = "turret" /\ pc' = "trigger")
                       => b2.charge.value = b.charge.value

\* The turrets that are the same entity before and after the step.
SameTurret(p) ==
    /\ turrets[p].exists
    /\ turrets'[p].exists
    /\ ~(restart_pending /\ ~restart_pending')

\* C40, turrets outside handle_trigger_events: the live value of a turret is
\* changed only by the turret handler, which lowers it, and only on a contact
\* with an enemy bullet.
C40_TurretHit ==
    ~(pc = "trigger" /\ pc' = "level") =>
       \A p \in Participant :
          SameTurret(p) =>
             /\ turrets'[p].charge.value <= turrets[p].charge.value
             /\ turrets'[p].charge.value < turrets[p].charge.value =>
                   /\ pc = "turret" /\ pc' = "trigger"
                   /\ \E i \in 1 .. Len(bullets) : ExchangesOf(i, p, contacts) # {}

\* C40, turrets in handle_trigger_events, event by event: the value goes up
\* only on a Multiply or on a shot trigger whose reset is boosted, and goes
\* down only on a shot trigger.
C40_TurretTrigger ==
    (pc = "trigger" /\ pc' = "level") =>
       \A p \in Participant :
          SameTurret(p) =>
             IF restart_trig
             THEN turrets'[p].charge.value = turrets[p].charge.value
             ELSE /\ turrets'[p].charge.value
                       = TriggerFold(turrets, trigger_events,
                                     ~restart_pending)[p].charge.value
                  /\ \A k \in 1 .. Len(trigger_events) :
                        LET ts0 == TriggerFold(turrets, SubSeq(trigger_events, 1, k - 1),
                                               ~restart_pending)
                            e   == trigger_events[k]
                            ts1 == Trigger(ts0, e, ~restart_pending)
                            boosted == now - ts0[p].last_hit_timestamp
                                          > TURRET_BOOST_COOLDOWN
                        IN  /\ ts1[p].charge.value > ts0[p].charge.value =>
                                 /\ e.participant = p
                                 /\ \/ e.trigger_type = "Multiply"
                                    \/ e.trigger_type \in {"BurstShot", "ChargedShot"}
                                          /\ boosted
                            /\ ts1[p].charge.value < ts0[p].charge.value =>
                                 /\ e.participant = p
                                 /\ e.trigger_type \in {"BurstShot", "ChargedShot"}

\* C40: after it is spawned a bullet keeps its owner and only loses value, 1 per
\* captured tile and the exchanged amount per contact with an enemy turret; the
\* live value of a turret goes up only by a Multiply trigger or a boosted reset
\* and down only by an exchange with an enemy bullet or the reset of a shot
\* trigger.
C40_ValueChanges == [][C40_Bullet /\ C40_TurretHit /\ C40_TurretTrigger]_vars

====
